---- MODULE Spec2Model ----
(***************************************************************************)
(* A model of the language semantics that the annotated samples of the     *)
(* repository exercise: destructuring patterns (05-destructuring.js),      *)
(* parameter lists with defaults and rest parameters (03-functions.js)     *)
(* and template literals with tag functions (06-symbols.js).               *)
(*                                                                         *)
(* Values are records of one shape; objects and arrays live on a heap and  *)
(* are referred to by address, so that aliasing and copying are visible.   *)
(***************************************************************************)
EXTENDS Integers, Sequences, FiniteSets, TLC

VARIABLES
    heap,      \* Seq of objects; the address of an object is its index
    prog,      \* the statement under execution (a declaration, a call, a template)
    status,    \* "parse", "ready", "binding", "body", "done" or the error thrown
    stack,     \* pending pattern frames, innermost first
    env,       \* bindings made so far, in the order they were made
    evals,     \* the default initialisers evaluated by the current match, in order
    result,    \* completion value of the current statement
    log,       \* one entry per completed call of the function
    snapshot,  \* the heap as it was when the match began
    args,      \* the argument expressions of the current call
    root,      \* the value the pattern is matched against
    conc,      \* two calls in progress on one heap
    scope,     \* a script with block bindings: its scopes, closures and output
    symbols,   \* the symbols created and the global symbol registry
    regexps,   \* the regular expressions of a script and their lastIndex
    objects    \* a script with objects: their own properties and prototypes

(* The state of a single destructuring match, call or template *)
matcher == <<heap, prog, status, stack, env, evals, result, log, snapshot, args, root>>

(* The state of the other scripts, which a match leaves alone *)
others == <<conc, scope, symbols, regexps, objects>>

vars == <<matcher, others>>

----------------------------------------------------------------------------
(* Bounds of the model *)

MaxCalls == 2        \* calls of one function in a run
MaxArgs == 2         \* arguments generated for a call
MaxSeqLen == 3       \* length of a generated source array
MaxTmplLen == 3      \* tokens of a generated template literal

----------------------------------------------------------------------------
(* Values *)

Undefined == [t |-> "undefined", n |-> 0, s |-> ""]
Null == [t |-> "null", n |-> 0, s |-> ""]
Num(k) == [t |-> "number", n |-> k, s |-> ""]
Str(cs) == [t |-> "string", n |-> 0, s |-> cs]
Bool(b) == [t |-> "boolean", n |-> IF b THEN 1 ELSE 0, s |-> ""]
Ref(a) == [t |-> "object", n |-> a, s |-> ""]
(* a symbol: s is its description *)
Sym(d) == [t |-> "symbol", n |-> 0, s |-> d]

(* as IsNullish, but written as a comparison with null alone *)
IsNullishOnlyNull(v) == v.t = "null"

IsNullish(v) == v.t \in {"undefined", "null"}

(* An object of the heap: an array keeps its elements in elems, and every
   object keeps its named properties in insertion order in keys/vals. *)
Obj(ks, vs) == [kind |-> "object", elems |-> <<>>, keys |-> ks, vals |-> vs]
Arr(es) == [kind |-> "array", elems |-> es, keys |-> <<>>, vals |-> <<>>]

KeyIndex(o, k) ==
    IF \E i \in 1..Len(o.keys) : o.keys[i] = k
    THEN CHOOSE i \in 1..Len(o.keys) : o.keys[i] = k
    ELSE 0

(* [[Get]] of a named property: undefined when the object has no such key *)
GetProp(o, k) == IF KeyIndex(o, k) = 0 THEN Undefined ELSE o.vals[KeyIndex(o, k)]

(* [[Get]] of an array position (0-based, as in the source): undefined past the end *)
GetIndex(o, i) == IF i + 1 \in 1..Len(o.elems) THEN o.elems[i + 1] ELSE Undefined

----------------------------------------------------------------------------
(* Source expressions that build values: object and array literals *)

LPrim(v) == [lt |-> "prim", v |-> v, keys |-> <<>>, items |-> <<>>]
LObj(ks, its) == [lt |-> "object", v |-> Undefined, keys |-> ks, items |-> its]
LArr(its) == [lt |-> "array", v |-> Undefined, keys |-> <<>>, items |-> its]

RECURSIVE AllocLit(_, _)
RECURSIVE AllocItems(_, _, _)

(* Evaluates the items of a literal left to right; vs collects their values *)
AllocItems(its, h, vs) ==
    IF its = <<>> THEN [heap |-> h, vals |-> vs]
    ELSE LET r == AllocLit(Head(its), h)
         IN AllocItems(Tail(its), r.heap, Append(vs, r.val))

(* Evaluates a literal: a primitive is itself, an object or array literal
   creates a new object at the next free address *)
AllocLit(lit, h) ==
    IF lit.lt = "prim" THEN [heap |-> h, val |-> lit.v]
    ELSE LET r == AllocItems(lit.items, h, <<>>)
             o == IF lit.lt = "object" THEN Obj(lit.keys, r.vals) ELSE Arr(r.vals)
         IN [heap |-> Append(r.heap, o), val |-> Ref(Len(r.heap) + 1)]

----------------------------------------------------------------------------
(* Patterns *)

NoDefault == [d |-> "none", v |-> Undefined, name |-> ""]
DConst(v) == [d |-> "const", v |-> v, name |-> ""]
DCall(f) == [d |-> "call", v |-> Undefined, name |-> f]
DRef(nm) == [d |-> "ref", v |-> Undefined, name |-> nm]
DEmptyObject == [d |-> "object", v |-> Undefined, name |-> ""]

NoPat == [shape |-> "none", elems |-> <<>>]
ObjectPattern(es) == [shape |-> "object", elems |-> es]
ArrayPattern(es) == [shape |-> "array", elems |-> es]

Name(nm, df) == [kind |-> "name", key |-> nm, local |-> nm, dflt |-> df, sub |-> NoPat]
Rename(k, nm, df) == [kind |-> "rename", key |-> k, local |-> nm, dflt |-> df, sub |-> NoPat]
Nested(k, p, df) == [kind |-> "nested", key |-> k, local |-> "", dflt |-> df, sub |-> p]
RestCapture(nm) == [kind |-> "rest", key |-> "", local |-> nm, dflt |-> NoDefault, sub |-> NoPat]
Elision == [kind |-> "elision", key |-> "", local |-> "", dflt |-> NoDefault, sub |-> NoPat]

RECURSIVE BoundNamesOf(_)
(* The identifiers a pattern declares, in declaration order *)
BoundNamesOf(es) ==
    IF es = <<>> THEN <<>>
    ELSE LET e == Head(es)
             here == CASE e.kind \in {"name", "rename", "rest"} -> <<e.local>>
                       [] e.kind = "nested" -> BoundNamesOf(e.sub.elems)
                       [] OTHER -> <<>>
         IN here \o BoundNamesOf(Tail(es))

BoundNames(p) == BoundNamesOf(p.elems)

SeqToSet(sq) == {sq[i] : i \in 1..Len(sq)}

RECURSIVE WellFormedCountOnly(_)
(* as WellFormed, but counting the rest elements without looking at their place *)
WellFormedCountOnly(p) ==
    /\ Cardinality({i \in 1..Len(p.elems) : p.elems[i].kind = "rest"}) <= 1
    /\ \A i \in 1..Len(p.elems) :
          p.elems[i].kind = "nested" => WellFormedCountOnly(p.elems[i].sub)

RECURSIVE WellFormed(_)
(* Early errors of a pattern or parameter list: a rest element is accepted
   only in the last position, at every level of nesting *)
WellFormed(p) ==
    \A i \in 1..Len(p.elems) :
        /\ p.elems[i].kind = "rest" => i = Len(p.elems)
        /\ p.elems[i].kind = "nested" => WellFormed(p.elems[i].sub)

----------------------------------------------------------------------------
(* Environment records *)

IsBound(e, nm) == \E i \in 1..Len(e) : e[i].name = nm

(* The current value of a name: its latest binding *)
Lookup(e, nm) ==
    LET i == CHOOSE j \in 1..Len(e) :
                 e[j].name = nm /\ \A k \in (j + 1)..Len(e) : e[k].name # nm
    IN e[i].val

(* as Bind, but leaving out a name whose value is undefined *)
BindDefinedOnly(e, nm, v) == IF v = Undefined THEN e ELSE Append(e, [name |-> nm, val |-> v])

Bind(e, nm, v) == Append(e, [name |-> nm, val |-> v])

----------------------------------------------------------------------------
(* Default initialisers *)

(* function getValue () { return 5 } *)
getValue == Num(5)

(* as EvalDefault, but reading a name that is not yet initialised as undefined,
   the way a hoisted var is read *)
EvalDefaultHoisted(df, e, h) ==
    CASE df.d = "const" -> [err |-> FALSE, val |-> df.v, heap |-> h]
      [] df.d = "call" -> [err |-> FALSE, val |-> getValue, heap |-> h]
      [] df.d = "ref" ->
            [err |-> FALSE, val |-> IF IsBound(e, df.name) THEN Lookup(e, df.name) ELSE Undefined,
             heap |-> h]
      [] df.d = "object" ->
            [err |-> FALSE, val |-> Ref(Len(h) + 1), heap |-> Append(h, Obj(<<>>, <<>>))]
      [] OTHER -> [err |-> FALSE, val |-> Undefined, heap |-> h]

(* as EvalDefault, but creating the object of `= {}` once and handing that
   same object to every later evaluation *)
EvalDefaultShared(df, e, h) ==
    LET made == {a \in 1..Len(h) : h[a] = Obj(<<>>, <<>>)}
    IN CASE df.d = "const" -> [err |-> FALSE, val |-> df.v, heap |-> h]
         [] df.d = "call" -> [err |-> FALSE, val |-> getValue, heap |-> h]
         [] df.d = "ref" ->
               IF IsBound(e, df.name)
               THEN [err |-> FALSE, val |-> Lookup(e, df.name), heap |-> h]
               ELSE [err |-> TRUE, val |-> Undefined, heap |-> h]
         [] df.d = "object" ->
               IF made # {}
               THEN [err |-> FALSE, val |-> Ref(CHOOSE a \in made : \A b \in made : a <= b),
                     heap |-> h]
               ELSE [err |-> FALSE, val |-> Ref(Len(h) + 1), heap |-> Append(h, Obj(<<>>, <<>>))]
         [] OTHER -> [err |-> FALSE, val |-> Undefined, heap |-> h]

(* Evaluates the initialiser df in environment e, with heap h.  A name that
   is not yet initialised cannot be read: the read throws a ReferenceError. *)
EvalDefault(df, e, h) ==
    CASE df.d = "const" -> [err |-> FALSE, val |-> df.v, heap |-> h]
      [] df.d = "call" -> [err |-> FALSE, val |-> getValue, heap |-> h]
      [] df.d = "ref" ->
            IF IsBound(e, df.name)
            THEN [err |-> FALSE, val |-> Lookup(e, df.name), heap |-> h]
            ELSE [err |-> TRUE, val |-> Undefined, heap |-> h]
      [] df.d = "object" ->
            [err |-> FALSE, val |-> Ref(Len(h) + 1), heap |-> Append(h, Obj(<<>>, <<>>))]
      [] OTHER -> [err |-> FALSE, val |-> Undefined, heap |-> h]

----------------------------------------------------------------------------
(* Numbers *)

NaN == [t |-> "number", n |-> 0, s |-> "NaN"]

(* first + second for the operands the samples pass: numbers, null, undefined *)
Add(a, b) ==
    IF a.t = "undefined" \/ b.t = "undefined" \/ a = NaN \/ b = NaN THEN NaN
    ELSE Num(a.n + b.n)

----------------------------------------------------------------------------
(* The values the samples destructure (05-destructuring.js) *)

LNum(k) == LPrim(Num(k))
LStr(cs) == LPrim(Str(cs))

node == LObj(<<"type", "name">>, <<LStr("Identifier"), LStr("foo")>>)

Position(l, c) == LObj(<<"line", "column">>, <<LNum(l), LNum(c)>>)

node2 ==
    LObj(<<"type", "name", "loc">>,
         <<LStr("Identifier"), LStr("foo"),
           LObj(<<"start", "end">>, <<Position(1, 1), Position(1, 4)>>)>>)

colors == LArr(<<LStr("red"), LStr("green"), LStr("blue")>>)
colors2 == LArr(<<LStr("red")>>)
colors3 == LArr(<<LStr("red"), LArr(<<LStr("green"), LStr("lightgreen")>>), LStr("blue")>>)

data ==
    LObj(<<"type", "name", "loc", "range">>,
         <<LStr("Identifier"), LStr("foo"),
           LObj(<<"start", "end">>, <<Position(100, 200), Position(1, 4)>>),
           LArr(<<LNum(3), LNum(5), LNum(8), LNum(9)>>)>>)

(* A statement of a sample.  kind "declare": `let pattern = source`;
   kind "call": a function with parameter list `pattern` and body `body`;
   kind "tag": a template literal `tmpl`, tagged with the function or untagged *)
Declare(p, src) ==
    [kind |-> "declare", name |-> "", pattern |-> p, source |-> src,
     body |-> "", tmpl |-> <<>>]
Function(nm, ps, b) ==
    [kind |-> "call", name |-> nm, pattern |-> ArrayPattern(ps), source |-> LPrim(Undefined),
     body |-> b, tmpl |-> <<>>]

(* The destructuring declarations of the samples, in file order *)
SampleDeclarations ==
    { Declare(ObjectPattern(<<Name("type", NoDefault), Name("name", NoDefault)>>), node),
      Declare(ObjectPattern(<<Name("someValue", NoDefault)>>), node),
      Declare(ObjectPattern(<<Name("type", NoDefault), Name("name", NoDefault),
                              Name("someValue", DConst(Str("abc123")))>>), node),
      Declare(ObjectPattern(<<Rename("type", "localType", NoDefault),
                              Rename("name", "localName", NoDefault)>>), node),
      Declare(ObjectPattern(<<Rename("someValue", "greeting", DConst(Str("Hello World!")))>>), node),
      Declare(ObjectPattern(<<Nested("loc", ObjectPattern(<<Nested("start",
                  ObjectPattern(<<Name("line", NoDefault),
                                  Rename("column", "localCol", NoDefault)>>),
                  NoDefault)>>), NoDefault)>>), node2),
      Declare(ArrayPattern(<<Name("color1", NoDefault), Name("color2", NoDefault)>>), colors),
      Declare(ArrayPattern(<<Elision, Elision, Name("b", NoDefault)>>), colors),
      Declare(ArrayPattern(<<Name("firstColor", NoDefault),
                             Name("secondColor", DConst(Str("green")))>>), colors2),
      Declare(ArrayPattern(<<Name("fColor", NoDefault),
                             Nested("", ArrayPattern(<<Name("sColor", NoDefault)>>), NoDefault)>>),
              colors3),
      Declare(ArrayPattern(<<Name("fCol", NoDefault), RestCapture("restColors")>>), colors),
      Declare(ArrayPattern(<<RestCapture("clonedColors2")>>), colors),
      Declare(ObjectPattern(<<
                  Nested("loc", ObjectPattern(<<Nested("start",
                      ObjectPattern(<<Rename("line", "asLine", DConst(Num(0))),
                                      Rename("column", "asColumn", DConst(Num(0)))>>),
                      NoDefault)>>), NoDefault),
                  Nested("range", ArrayPattern(<<Name("startIndex", DConst(Num(0))),
                                                 Elision, Elision,
                                                 Name("endIndex", NoDefault)>>), NoDefault)>>),
              data) }

(* Generated sources and patterns: every combination within the bounds *)

Absent == [t |-> "absent", n |-> 0, s |-> ""]
LeafVals == {Undefined, Null, Num(0), Num(1), Str("")}
FieldChoices == LeafVals \cup {Absent}

Field(k, v) == IF v = Absent THEN <<>> ELSE <<k>>
Item(v) == IF v = Absent THEN <<>> ELSE <<LPrim(v)>>

(* { a: va, b: vb } with either field possibly left out, and possibly a
   further field the patterns never mention *)
GenObjects ==
    { LObj(Field("a", va) \o Field("b", vb) \o (IF extra THEN <<"c">> ELSE <<>>),
           Item(va) \o Item(vb) \o (IF extra THEN <<LNum(7)>> ELSE <<>>)) :
        va \in FieldChoices, vb \in FieldChoices, extra \in BOOLEAN }

LeafA == {Name("a", NoDefault), Name("a", DConst(Num(10)))}
LeafB == {Rename("b", "renamedB", NoDefault), Rename("b", "renamedB", DConst(Num(10)))}

GenObjectPatterns ==
    {ObjectPattern(<<x>>) : x \in LeafA \cup LeafB}
    \cup {ObjectPattern(<<x, y>>) : x \in LeafA, y \in LeafB}
    \cup {ObjectPattern(<<y, x>>) : x \in LeafA, y \in LeafB}

SeqsUpTo(S, n) == UNION {[1..k -> S] : k \in 0..n}

ItemVals == {Str("red"), Str("green"), Undefined}

GenArrays == {LArr([i \in 1..Len(sq) |-> LPrim(sq[i])]) : sq \in SeqsUpTo(ItemVals, MaxSeqLen)}

GenArrayPatterns ==
    { ArrayPattern(<<RestCapture("all")>>),
      ArrayPattern(<<Name("first", NoDefault), RestCapture("rest")>>),
      ArrayPattern(<<Name("a", NoDefault), Name("b", NoDefault), RestCapture("rest")>>),
      ArrayPattern(<<Name("a", DConst(Str("blue"))), Elision, RestCapture("rest")>>),
      ArrayPattern(<<Name("x", NoDefault), Name("y", DConst(Str("green")))>>),
      ArrayPattern(<<Name("x", NoDefault), Name("y", DRef("x"))>>),
      ArrayPattern(<<Name("x", DRef("y")), Name("y", NoDefault)>>) }

(* Patterns the grammar rejects: a rest element that is not last *)
MalformedPatterns ==
    { ArrayPattern(<<RestCapture("keys"), Name("last", NoDefault)>>),
      ArrayPattern(<<RestCapture("a"), RestCapture("b")>>),
      ArrayPattern(<<Name("x", NoDefault),
                     Nested("", ArrayPattern(<<RestCapture("r"), Name("y", NoDefault)>>),
                            NoDefault)>>) }

GenDeclarations ==
    {Declare(p, src) : p \in GenObjectPatterns, src \in GenObjects}
    \cup {Declare(p, src) : p \in GenArrayPatterns, src \in GenArrays}
    \cup {Declare(p, colors) : p \in MalformedPatterns}

Declarations == SampleDeclarations \cup GenDeclarations

(* Every declaration again with a right-hand side that is null or undefined *)
NullishDeclarations ==
    {Declare(d.pattern, LPrim(v)) : d \in Declarations, v \in {Null, Undefined}}

----------------------------------------------------------------------------
(* The functions of the samples (03-functions.js, 05-destructuring.js) *)

add == Function("add", <<Name("first", NoDefault), Name("second", DCall("getValue"))>>, "sum")
add1 == Function("add1", <<Name("first", NoDefault), Name("second", DRef("first"))>>, "sum")
(* the parameter list the TDZ note rules out: first = second, second *)
addForward == Function("addForward", <<Name("first", DRef("second")), Name("second", NoDefault)>>, "sum")
makeRequest4 ==
    Function("makeRequest4", <<Name("url", NoDefault), Name("timeout", DConst(Num(2000))),
                               Name("callback", NoDefault)>>, "none")
pick2 == Function("pick2", <<Name("object", NoDefault), RestCapture("everythingElse")>>, "none")
checkArgs == Function("checkArgs", <<RestCapture("rest")>>, "none")
(* function pick (object, ...keys, last): a syntax error *)
pick ==
    Function("pick", <<Name("object", NoDefault), RestCapture("keys"), Name("last", NoDefault)>>,
             "none")

CookieOptions(df) ==
    Nested("", ObjectPattern(<<Name("secure", NoDefault), Name("path", NoDefault),
                               Name("domain", NoDefault), Name("expires", NoDefault)>>), df)

setCookie ==
    Function("setCookie", <<Name("name", NoDefault), Name("value", NoDefault),
                            CookieOptions(NoDefault)>>, "none")
setCookie2 ==
    Function("setCookie2", <<Name("name", NoDefault), Name("value", NoDefault),
                             CookieOptions(DEmptyObject)>>, "none")
setCookie3 ==
    Function("setCookie3",
             <<Name("name", NoDefault), Name("value", NoDefault),
               Nested("", ObjectPattern(<<Name("secure", DConst(Bool(FALSE))),
                                          Name("path", DConst(Str("/"))),
                                          Name("domain", DConst(Str("example.com"))),
                                          Name("expires", DEmptyObject)>>), DEmptyObject)>>,
             "none")

Functions ==
    {add, add1, addForward, makeRequest4, pick2, checkArgs, pick,
     setCookie, setCookie2, setCookie3}

IsCookieFunction(p) == p.name \in {"setCookie", "setCookie2", "setCookie3"}

(* Argument lists of a call *)
NumArgs == {[i \in 1..Len(sq) |-> LPrim(sq[i])] : sq \in SeqsUpTo({Undefined, Num(1), Num(2)}, MaxArgs)}

CookieArgs ==
    { <<LStr("type"), LStr("js")>>,
      <<LStr("type"), LStr("js"), LObj(<<"secure", "expires">>, <<LPrim(Bool(TRUE)), LNum(60000)>>)>>,
      <<LStr("type"), LStr("js"), LPrim(Undefined)>>,
      <<LStr("type"), LStr("js"), LPrim(Null)>> }

ArgLists(p) == IF IsCookieFunction(p) THEN CookieArgs ELSE NumArgs

----------------------------------------------------------------------------
(* Template literals (06-symbols.js) *)

(* let count = 10, price = 0.25: a number with decimals is kept in hundredths *)
Dec(h) == [t |-> "number", n |-> h, s |-> "/100"]

Digit(d) ==
    CASE d = 0 -> "0" [] d = 1 -> "1" [] d = 2 -> "2" [] d = 3 -> "3" [] d = 4 -> "4"
      [] d = 5 -> "5" [] d = 6 -> "6" [] d = 7 -> "7" [] d = 8 -> "8" [] OTHER -> "9"

RECURSIVE Digits(_)
(* The decimal digits of a natural number *)
Digits(k) == IF k < 10 THEN Digit(k) ELSE Digits(k \div 10) \o Digit(k % 10)

Signed(k, text) == IF k < 0 THEN "-" \o text ELSE text
Abs(k) == IF k < 0 THEN 0 - k ELSE k

(* String(v), the explicit conversion: String(uid4) is 'Symbol(uid)' *)
String(v) ==
    CASE v.t = "string" -> v.s
      [] v.t = "symbol" -> "Symbol(" \o v.s \o ")"
      [] v.t = "undefined" -> "undefined"
      [] v.t = "null" -> "null"
      [] v.t = "boolean" -> IF v.n = 1 THEN "true" ELSE "false"
      [] v.t = "number" /\ v.s = "NaN" -> "NaN"
      [] v.t = "number" /\ v.s = "" -> Signed(v.n, Digits(Abs(v.n)))
      [] v.t = "number" /\ v.s = "/100" ->
            LET h == Abs(v.n)
                whole == Digits(h \div 100)
            IN Signed(v.n,
                 IF h % 100 = 0 THEN whole
                 ELSE IF h % 10 = 0 THEN whole \o "." \o Digit((h % 100) \div 10)
                 ELSE whole \o "." \o Digit((h % 100) \div 10) \o Digit(h % 10))
      [] OTHER -> "[object Object]"

(* The implicit conversion that concatenation and template literals apply:
   as String(v), except that a symbol cannot be coerced and throws a TypeError *)
ToStringCoerce(v) == [err |-> v.t = "symbol", s |-> IF v.t = "symbol" THEN "" ELSE String(v)]

(* x.toFixed(2): always two decimals *)
toFixed2(v) ==
    LET h == IF v.s = "/100" THEN Abs(v.n) ELSE Abs(v.n) * 100
    IN Str(Signed(v.n, Digits(h \div 100) \o "." \o Digit((h % 100) \div 10) \o Digit(h % 10)))

(* x * y for the operands of the samples: at most one of them has decimals *)
Mul(a, b) == IF a.s = "/100" \/ b.s = "/100" THEN Dec(a.n * b.n) ELSE Num(a.n * b.n)

(* The variables the templates of the samples read *)
Global(nm) ==
    CASE nm = "count" -> Num(10)
      [] nm = "price" -> Dec(25)
      [] nm = "name" -> Str("Nicholas")
      [] nm = "name2" -> Str("Nicholas")
      [] nm = "uid4" -> Sym("uid")
      [] OTHER -> Undefined

(* Substitution expressions *)
NoExpr == [op |-> "none", name |-> "", other |-> "", v |-> Undefined, tmpl |-> <<>>]
EVar(nm) == [op |-> "var", name |-> nm, other |-> "", v |-> Undefined, tmpl |-> <<>>]
EConst(v) == [op |-> "const", name |-> "", other |-> "", v |-> v, tmpl |-> <<>>]
EMulFixed(x, y) == [op |-> "mulFixed", name |-> x, other |-> y, v |-> Undefined, tmpl |-> <<>>]
ETemplate(tks) == [op |-> "template", name |-> "", other |-> "", v |-> Undefined, tmpl |-> tks]

(* The tokens of a template literal: a character of text, with its cooked
   and its raw spelling, or a substitution ${expr} *)
Chr(c) == [k |-> "chr", cooked |-> c, raw |-> c, expr |-> NoExpr]
Esc(c, r) == [k |-> "chr", cooked |-> c, raw |-> r, expr |-> NoExpr]
Sub(e) == [k |-> "sub", cooked |-> "", raw |-> "", expr |-> e]

RECURSIVE TemplateValue(_)
RECURSIVE Eval(_)

(* The value of a substitution expression, or the error it throws *)
Eval(e) ==
    CASE e.op = "var" -> [err |-> FALSE, v |-> Global(e.name)]
      [] e.op = "const" -> [err |-> FALSE, v |-> e.v]
      [] e.op = "mulFixed" ->
            [err |-> FALSE, v |-> toFixed2(Mul(Global(e.name), Global(e.other)))]
      [] e.op = "template" ->
            [err |-> TemplateValue(e.tmpl).err, v |-> Str(TemplateValue(e.tmpl).s)]
      [] OTHER -> [err |-> FALSE, v |-> Undefined]

(* The string an untagged template literal evaluates to: its text with every
   substitution coerced to a string in place, left to right; the first
   substitution that throws ends the evaluation *)
TemplateValue(tks) ==
    IF tks = <<>> THEN [err |-> FALSE, s |-> ""]
    ELSE LET tk == Head(tks)
             v == Eval(tk.expr)
             here == IF tk.k = "sub"
                     THEN IF v.err THEN [err |-> TRUE, s |-> ""] ELSE ToStringCoerce(v.v)
                     ELSE [err |-> FALSE, s |-> tk.cooked]
             rest == TemplateValue(Tail(tks))
         IN IF here.err \/ rest.err THEN [err |-> TRUE, s |-> ""]
            ELSE [err |-> FALSE, s |-> here.s \o rest.s]

RECURSIVE Segments(_, _, _)
(* The literal segments of a template, cooked or raw: the text between the
   substitutions, one segment more than there are substitutions *)
Segments(tks, useRaw, segs) ==
    IF tks = <<>> THEN segs
    ELSE LET tk == Head(tks)
             n == Len(segs)
         IN IF tk.k = "sub"
            THEN Segments(Tail(tks), useRaw, Append(segs, ""))
            ELSE Segments(Tail(tks), useRaw,
                          [segs EXCEPT ![n] = @ \o (IF useRaw THEN tk.raw ELSE tk.cooked)])

StrVals(ss) == [i \in 1..Len(ss) |-> Str(ss[i])]

(* as CookedStrings, but leaving out the empty segments, the way
   text.split(...).filter(Boolean) does *)
CookedStringsNoEmpty(tks) ==
    LET all == Segments(tks, FALSE, <<"">>)
    IN StrVals(SelectSeq(all, LAMBDA sg : sg # ""))

(* as CookedStrings, but with the escapes left as written *)
CookedStringsUnresolved(tks) == StrVals(Segments(tks, TRUE, <<"">>))

CookedStrings(tks) == StrVals(Segments(tks, FALSE, <<"">>))
RawStrings(tks) == StrVals(Segments(tks, TRUE, <<"">>))

RECURSIVE SubstitutionValues(_)
(* The values of the substitutions, in source order *)
SubstitutionValues(tks) ==
    IF tks = <<>> THEN <<>>
    ELSE (IF Head(tks).k = "sub" THEN <<Eval(Head(tks).expr).v>> ELSE <<>>)
            \o SubstitutionValues(Tail(tks))

(* Whether evaluating one of the substitution expressions throws *)
SubstitutionThrows(tks) == \E i \in 1..Len(tks) : tks[i].k = "sub" /\ Eval(tks[i].expr).err

Text(cs) == [i \in 1..Len(cs) |-> Chr(cs[i])]

(* `Hello world!` *)
message == Text(<<"H", "e", "l", "l", "o", " ", "w", "o", "r", "l", "d", "!">>)
(* `Hello, ${name}.` *)
helloName == Text(<<"H", "e", "l", "l", "o", ",", " ">>) \o <<Sub(EVar("name")), Chr(".")>>
(* `${count} items cost $${(count * price).toFixed(2)}.` *)
message15 ==
    <<Sub(EVar("count"))>>
    \o Text(<<" ", "i", "t", "e", "m", "s", " ", "c", "o", "s", "t", " ", "$">>)
    \o <<Sub(EMulFixed("count", "price")), Chr(".")>>
(* `Hello, ${`my name is ${name2}`}.` *)
message22 ==
    Text(<<"H", "e", "l", "l", "o", ",", " ">>)
    \o <<Sub(ETemplate(Text(<<"m", "y", " ", "n", "a", "m", "e", " ", "i", "s", " ">>)
                        \o <<Sub(EVar("name2"))>>)),
         Chr(".")>>
(* `Multiline\nstring`, the line break written as an escape *)
message3 ==
    Text(<<"M", "u", "l", "t", "i", "l", "i", "n", "e", " ">>)
    \o <<Esc("\n", "\\n")>> \o Text(<<"s", "t", "r", "i", "n", "g">>)
(* `my symbol: ${`${uid4}`}`: the inner template throws *)
nestedSymbol == Text(<<"i", "d", " ">>) \o <<Sub(ETemplate(<<Sub(EVar("uid4"))>>))>>
(* `Hello world` *)
hello == Text(<<"H", "e", "l", "l", "o", " ", "w", "o", "r", "l", "d">>)

SampleTemplates == {message, helloName, message15, message22, message3, nestedSymbol, hello}

GenTokens ==
    {Chr("a"), Esc("\n", "\\n"), Sub(EVar("count")), Sub(EVar("price")),
     Sub(EVar("uid4")), Sub(EConst(Undefined)), Sub(EConst(Str("")))}

Templates == SampleTemplates \cup SeqsUpTo(GenTokens, MaxTmplLen)

(* function tagfunc (literals, ...substitutions) *)
tagfunc == <<Name("literals", NoDefault), RestCapture("substitutions")>>
(* function passThru (literalsArr, ...substitutions) *)
passThru == <<Name("literalsArr", NoDefault), RestCapture("substitutions")>>

Untagged(tks) ==
    [kind |-> "template", name |-> "", pattern |-> ArrayPattern(<<>>), source |-> LPrim(Undefined),
     body |-> "", tmpl |-> tks]
Tagged(nm, ps, tks) ==
    [kind |-> "tag", name |-> nm, pattern |-> ArrayPattern(ps), source |-> LPrim(Undefined),
     body |-> "log", tmpl |-> tks]

TemplatePrograms ==
    {Untagged(tks) : tks \in Templates}
    \cup {Tagged("passThru", passThru, tks) : tks \in Templates}
    \cup {Tagged("tagfunc", tagfunc, hello)}

Programs == Declarations \cup NullishDeclarations \cup Functions \cup TemplatePrograms

----------------------------------------------------------------------------
(* The state machine *)

Init ==
    /\ prog \in Programs
    /\ heap = <<>>
    /\ status = "parse"
    /\ stack = <<>>
    /\ env = <<>>
    /\ evals = <<>>
    /\ result = Undefined
    /\ log = <<>>
    /\ snapshot = <<>>
    /\ args = <<>>
    /\ root = Undefined
    /\ conc = <<>>
    /\ scope = <<>>
    /\ symbols = <<>>
    /\ regexps = <<>>
    /\ objects = <<>>

(* Parsing: a statement with an early error never runs *)
Parse ==
    /\ status = "parse"
    /\ status' = IF WellFormed(prog.pattern) THEN "ready" ELSE "SyntaxError"
    /\ UNCHANGED <<heap, prog, stack, env, evals, result, log, snapshot, args, root, others>>

Frame(p, a) == [shape |-> p.shape, elems |-> p.elems, src |-> a, idx |-> 0]

(* let pattern = source: the right-hand side is evaluated first; a null or
   undefined value cannot be destructured *)
BeginMatch ==
    /\ prog.kind = "declare"
    /\ status = "ready"
    /\ LET r == AllocLit(prog.source, heap)
       IN /\ heap' = r.heap
          /\ snapshot' = r.heap
          /\ root' = r.val
          /\ IF IsNullish(r.val)
             THEN status' = "TypeError" /\ stack' = <<>>
             ELSE status' = "binding" /\ stack' = <<Frame(prog.pattern, r.val.n)>>
    /\ UNCHANGED <<prog, env, evals, result, log, args, others>>

(* f(...as): the arguments are evaluated left to right into the arguments
   list, against which the parameter list is matched as an array pattern *)
BeginCall ==
    /\ prog.kind = "call"
    /\ status \in {"ready", "done"}
    /\ Len(log) < MaxCalls
    /\ \E as \in ArgLists(prog) :
          LET r == AllocItems(as, heap, <<>>)
              h == Append(r.heap, Arr(r.vals))
          IN /\ heap' = h
             /\ snapshot' = h
             /\ root' = Ref(Len(h))
             /\ args' = as
             /\ stack' = <<Frame(prog.pattern, Len(h))>>
    /\ status' = "binding"
    /\ env' = <<>>
    /\ evals' = <<>>
    /\ result' = Undefined
    /\ UNCHANGED <<prog, log, others>>

(* `...${e}...`: the text and the substitutions, each converted to a string *)
EvalTemplate ==
    /\ prog.kind = "template"
    /\ status = "ready"
    /\ IF TemplateValue(prog.tmpl).err
       THEN status' = "TypeError" /\ UNCHANGED result
       ELSE status' = "done" /\ result' = Str(TemplateValue(prog.tmpl).s)
    /\ UNCHANGED <<heap, prog, stack, env, evals, log, snapshot, args, root, others>>

(* tag`...${e}...`: the literals array, carrying the raw strings in its
   property raw, is passed first, then the values of the substitutions *)
TagCall ==
    /\ prog.kind = "tag"
    /\ status = "ready"
    /\ ~SubstitutionThrows(prog.tmpl)
    /\ LET rawAt == Len(heap) + 1
           litAt == Len(heap) + 2
           raws == Arr(RawStrings(prog.tmpl))
           lits == [Arr(CookedStrings(prog.tmpl)) EXCEPT !.keys = <<"raw">>, !.vals = <<Ref(rawAt)>>]
           as == <<Ref(litAt)>> \o SubstitutionValues(prog.tmpl)
           h == heap \o <<raws, lits, Arr(as)>>
       IN /\ heap' = h
          /\ snapshot' = h
          /\ root' = Ref(Len(h))
          /\ args' = [i \in 1..Len(as) |-> LPrim(as[i])]
          /\ stack' = <<Frame(prog.pattern, Len(h))>>
    /\ status' = "binding"
    /\ UNCHANGED <<prog, env, evals, result, log, others>>

(* tag`...${e}...` where evaluating a substitution throws: the tag function is not called *)
TagThrows ==
    /\ prog.kind = "tag"
    /\ status = "ready"
    /\ SubstitutionThrows(prog.tmpl)
    /\ status' = "TypeError"
    /\ UNCHANGED <<heap, prog, stack, env, evals, result, log, snapshot, args, root, others>>

(* The value an element of the innermost frame reads from its source *)
Fetch(f, e) ==
    IF f.shape = "object" THEN GetProp(heap[f.src], e.key) ELSE GetIndex(heap[f.src], f.idx)

(* The frames once the first element of the innermost one is done *)
Advance ==
    <<[Head(stack) EXCEPT !.elems = Tail(@), !.idx = @ + 1]>> \o Tail(stack)

Current == Head(Head(stack).elems)

Pending(kinds) ==
    /\ status = "binding"
    /\ stack # <<>>
    /\ Head(stack).elems # <<>>
    /\ Current.kind \in kinds

(* as UsesDefault, but with the ES5 idiom `value || default`, which also
   replaces null, 0 and the empty string *)
UsesDefaultFalsy(e, v) == v \in {Undefined, Null, Num(0), Str("")} /\ e.dflt.d # "none"

(* as UsesDefault, but evaluating a declared default whether or not a value is supplied *)
UsesDefaultEager(e, v) == e.dflt.d # "none"

UsesDefault(e, v) == v = Undefined /\ e.dflt.d # "none"

(* The record of one evaluation of a default initialiser *)
Evaluated(f, e) ==
    [local |-> e.local, key |-> e.key, idx |-> f.idx, depth |-> Len(stack),
     d |-> e.dflt.d, ref |-> e.dflt.name]

(* A Name or Rename leaf: binds the field's value, or the default when the
   field is missing or undefined *)
BindLeaf ==
    /\ Pending({"name", "rename"})
    /\ LET f == Head(stack)
           e == Current
           v == Fetch(f, e)
           r == EvalDefault(e.dflt, env, heap)
       IN IF UsesDefault(e, v)
          THEN /\ evals' = Append(evals, Evaluated(f, e))
               /\ heap' = r.heap
               /\ IF r.err
                  THEN status' = "ReferenceError" /\ UNCHANGED <<env, stack>>
                  ELSE /\ env' = Bind(env, e.local, r.val)
                       /\ stack' = Advance
                       /\ UNCHANGED status
          ELSE /\ env' = Bind(env, e.local, v)
               /\ stack' = Advance
               /\ UNCHANGED <<evals, heap, status>>
    /\ UNCHANGED <<prog, result, log, snapshot, args, root, others>>

(* A nested pattern: reads the field (or its default) and descends into it;
   null and undefined have no properties to read *)
BindNested ==
    /\ Pending({"nested"})
    /\ LET f == Head(stack)
           e == Current
           v == Fetch(f, e)
           r == EvalDefault(e.dflt, env, heap)
           w == IF UsesDefault(e, v) THEN r.val ELSE v
       IN /\ IF UsesDefault(e, v)
             THEN evals' = Append(evals, Evaluated(f, e)) /\ heap' = r.heap
             ELSE UNCHANGED <<evals, heap>>
          /\ IF UsesDefault(e, v) /\ r.err
             THEN status' = "ReferenceError" /\ UNCHANGED stack
             ELSE IF IsNullish(w)
             THEN status' = "TypeError" /\ UNCHANGED stack
             ELSE /\ stack' = <<Frame(e.sub, w.n)>> \o Advance
                  /\ UNCHANGED status
    /\ UNCHANGED <<prog, env, result, log, snapshot, args, root, others>>

(* as RestOf, but starting one position late *)
RestOfLate(o, i) == SubSeq(o.elems, i + 2, Len(o.elems))

(* The elements of an array from position i (0-based) to the end *)
RestOf(o, i) == SubSeq(o.elems, i + 1, Len(o.elems))

(* as RestTarget, but handing out the source array itself when nothing
   precedes the rest element *)
RestTargetAlias(h, f) == IF f.idx = 0 THEN f.src ELSE Len(h) + 1

(* The address of the array a rest element binds: a newly created one *)
RestTarget(h, f) == Len(h) + 1

(* ...rest: binds a new array holding the remaining elements *)
BindRest ==
    /\ Pending({"rest"})
    /\ LET f == Head(stack)
           e == Current
       IN /\ heap' = Append(heap, Arr(RestOf(heap[f.src], f.idx)))
          /\ env' = Bind(env, e.local, Ref(RestTarget(heap, f)))
          /\ stack' = Advance
    /\ UNCHANGED <<prog, status, evals, result, log, snapshot, args, root, others>>

(* [, , b]: an omitted item only moves the position *)
SkipElision ==
    /\ Pending({"elision"})
    /\ stack' = Advance
    /\ UNCHANGED <<heap, prog, status, env, evals, result, log, snapshot, args, root, others>>

(* The innermost pattern is exhausted *)
PopFrame ==
    /\ status = "binding"
    /\ stack # <<>>
    /\ Head(stack).elems = <<>>
    /\ stack' = Tail(stack)
    /\ UNCHANGED <<heap, prog, status, env, evals, result, log, snapshot, args, root, others>>

(* The body of the function, once its parameters are bound *)
Body(p, e) ==
    IF p.body = "sum" THEN Add(Lookup(e, "first"), Lookup(e, "second")) ELSE Undefined

(* All names are bound: a declaration is complete, a call runs its body and returns *)
Complete ==
    /\ status = "binding"
    /\ stack = <<>>
    /\ status' = "done"
    /\ IF prog.kind \in {"call", "tag"}
       THEN /\ result' = Body(prog, env)
            /\ log' = Append(log, [args |-> args, result |-> Body(prog, env), evals |-> evals])
       ELSE UNCHANGED <<result, log>>
    /\ UNCHANGED <<heap, prog, stack, env, evals, snapshot, args, root, others>>

RestNames(p) == {nm \in SeqToSet(BoundNames(p)) :
                    \E i \in 1..Len(p.elems) : p.elems[i].kind = "rest" /\ p.elems[i].local = nm}

(* Later code changes the array a rest element captured *)
ModifyRest ==
    /\ status = "done"
    /\ \E nm \in RestNames(prog.pattern) :
          /\ IsBound(env, nm)
          /\ \E v \in {Str("black"), Undefined} :
                heap' = [heap EXCEPT ![Lookup(env, nm).n].elems = <<v>> \o @]
    /\ status' = "modified"
    /\ UNCHANGED <<prog, stack, env, evals, result, log, snapshot, args, root, others>>

Next ==
    \/ Parse
    \/ BeginMatch
    \/ BeginCall
    \/ EvalTemplate
    \/ TagCall
    \/ TagThrows
    \/ BindLeaf
    \/ BindNested
    \/ BindRest
    \/ SkipElision
    \/ PopFrame
    \/ Complete
    \/ ModifyRest

Spec == Init /\ [][Next]_vars

(* var clonedColors = colors.concat(): a new array with the same elements *)
concat(o) == Arr(o.elems)

----------------------------------------------------------------------------
(* What the declarations are expected to bind, read off the source
   expression rather than off the heap *)

LitFetch(lit, shape, key, pos) ==
    IF shape = "object"
    THEN IF \E i \in 1..Len(lit.keys) : lit.keys[i] = key
         THEN lit.items[CHOOSE i \in 1..Len(lit.keys) : lit.keys[i] = key]
         ELSE LPrim(Absent)
    ELSE IF pos + 1 <= Len(lit.items) THEN lit.items[pos + 1] ELSE LPrim(Absent)

RECURSIVE ExpectedLeaves(_, _, _, _)
ExpectedLeaves(es, shape, lit, pos) ==
    IF es = <<>> THEN <<>>
    ELSE LET e == Head(es)
             f == LitFetch(lit, shape, e.key, pos)
             missing == f.lt = "prim" /\ f.v \in {Absent, Undefined}
             here ==
                 CASE e.kind \in {"name", "rename"} ->
                        <<[name |-> e.local,
                           byDefault |-> missing /\ e.dflt.d # "none",
                           dflt |-> e.dflt,
                           prim |-> f.lt = "prim",
                           val |-> IF f.lt = "prim" /\ f.v # Absent THEN f.v ELSE Undefined]>>
                   [] e.kind = "nested" /\ f.lt # "prim" ->
                        ExpectedLeaves(e.sub.elems, e.sub.shape, f, 0)
                   [] OTHER -> <<>>
         IN here \o ExpectedLeaves(Tail(es), shape, lit, pos + 1)

Expected == ExpectedLeaves(prog.pattern.elems, prog.pattern.shape, prog.source, 0)

EnvNames == [i \in 1..Len(env) |-> env[i].name]

Started == status \notin {"parse", "ready", "SyntaxError"}
Matched == status \in {"done", "modified"}

----------------------------------------------------------------------------
(* Claims *)

HasDefault(p) == \E i \in 1..Len(p.elems) : p.elems[i].dflt.d # "none"

OptionNames == {"secure", "path", "domain", "expires"}

(* The value the third parameter of a cookie function receives *)
ThirdArg == IF Len(args) >= 3 THEN args[3] ELSE LPrim(Undefined)

(* C1: a pattern matched against a root value that is null or undefined
   always fails with a TypeError and binds none of its names, defaults or
   not; setCookie fails when its options argument is missing, setCookie2,
   whose options parameter has the default {}, does not. *)
C1_NullishSourceFails ==
    /\ (prog.kind = "declare" /\ Started /\ root \in {Null, Undefined})
          => (status = "TypeError" /\ env = <<>> /\ evals = <<>>)
    /\ (prog = setCookie /\ Started /\ ThirdArg.lt = "prim" /\ ThirdArg.v \in {Null, Undefined})
          => /\ status \in {"binding", "TypeError"}
             /\ SeqToSet(EnvNames) \cap OptionNames = {}
             /\ (status = "binding" => Len(Head(stack).elems) >= 1)
    /\ (prog = setCookie2 /\ Started /\ Len(args) = 2) => status # "TypeError"

C1_Witness ==
    /\ prog.kind = "declare"
    /\ HasDefault(prog.pattern)
    /\ root = Undefined
    /\ status = "TypeError"

(* C1, the example: setCookie('type', 'js') has thrown *)
C1_WitnessSetCookie == prog = setCookie /\ Len(args) = 2 /\ status = "TypeError"

(* C2: a Name or Rename leaf binds its default exactly when the field is
   absent or undefined and a default is declared; otherwise it binds the
   field's own value (null, 0, '' included), undefined when the field is
   missing and there is no default. *)
C2_DefaultExactlyWhenMissing ==
    (prog.kind = "declare" /\ Matched) =>
        \A i \in 1..Len(Expected) :
            LET x == Expected[i]
            IN /\ IsBound(env, x.name)
               /\ x.byDefault <=> (\E j \in 1..Len(evals) : evals[j].local = x.name)
               /\ (x.byDefault /\ x.dflt.d = "const") => Lookup(env, x.name) = x.dflt.v
               /\ (~x.byDefault /\ x.prim) => Lookup(env, x.name) = x.val

(* {a, b: renamedB = 10} against {a: 1} gives a = 1, renamedB = 10 *)
C2_Witness ==
    /\ prog = Declare(ObjectPattern(<<Name("a", NoDefault), Rename("b", "renamedB", DConst(Num(10)))>>),
                      LObj(<<"a">>, <<LNum(1)>>))
    /\ status = "done"
    /\ env = <<[name |-> "a", val |-> Num(1)], [name |-> "renamedB", val |-> Num(10)]>>

IsRestPattern(p) ==
    /\ p.shape = "array"
    /\ p.elems # <<>>
    /\ p.elems[Len(p.elems)].kind = "rest"

(* C3: [e1, ..., ek, ...rest] against an array of length n >= k binds rest
   to a new array of length n - k holding the elements from position k on
   in their order; with k = 0 it equals colors.concat(). *)
C3_RestHoldsRemainder ==
    (prog.kind = "declare" /\ status = "done" /\ IsRestPattern(prog.pattern)) =>
        LET k == Len(prog.pattern.elems) - 1
            n == Len(prog.source.items)
            a == Lookup(env, prog.pattern.elems[k + 1].local).n
        IN n >= k =>
             /\ a \notin 1..Len(snapshot)
             /\ heap[a].kind = "array"
             /\ Len(heap[a].elems) = n - k
             /\ \A j \in 1..(n - k) : heap[a].elems[j] = prog.source.items[k + j].v
             /\ k = 0 => heap[a] = concat(heap[root.n])

(* [fCol, ...restColors] against ['red', 'green', 'blue'] *)
C3_Witness ==
    /\ prog = Declare(ArrayPattern(<<Name("fCol", NoDefault), RestCapture("restColors")>>), colors)
    /\ status = "done"
    /\ heap[Lookup(env, "restColors").n].elems = <<Str("green"), Str("blue")>>

(* C4: an object pattern without rest element, matched against an object,
   binds exactly the identifiers it declares (the local name of a Rename,
   the leaves of a Nested pattern), whatever other fields the object has. *)
C4_BoundNamesAreDeclared ==
    (prog.kind = "declare" /\ prog.pattern.shape = "object" /\ Matched) =>
        /\ SeqToSet(EnvNames) = SeqToSet(BoundNames(prog.pattern))
        /\ Len(env) = Len(BoundNames(prog.pattern))

(* {a, b: renamedB} against {b: undefined, c: 7}: a and renamedB are bound, c is not *)
C4_Witness ==
    /\ prog.kind = "declare"
    /\ prog.pattern = ObjectPattern(<<Name("a", NoDefault), Rename("b", "renamedB", NoDefault)>>)
    /\ prog.source = LObj(<<"b", "c">>, <<LPrim(Undefined), LNum(7)>>)
    /\ status = "done"
    /\ SeqToSet(EnvNames) = {"a", "renamedB"}

ArgMissing(as, i) == i > Len(as) \/ as[i] = LPrim(Undefined)

(* How often the default of parameter i (1-based) was evaluated *)
EvalCount(ev, i) == Cardinality({j \in 1..Len(ev) : ev[j].depth = 1 /\ ev[j].idx = i - 1})

OncePerMissing(p, as, ev) ==
    \A i \in 1..Len(p.elems) :
        p.elems[i].dflt.d # "none" => EvalCount(ev, i) = IF ArgMissing(as, i) THEN 1 ELSE 0

(* C5: in one call or match a default is evaluated exactly once for each
   parameter or field that is missing or undefined, never for one that is
   supplied, and never before the call: add(1) evaluates getValue() once and
   returns 6, add(1, 2) does not evaluate it and returns 3, and each of two
   calls add(1) evaluates it once. *)
C5_DefaultOncePerMissing ==
    /\ (prog.kind = "call" /\ status = "done") => OncePerMissing(prog.pattern, args, evals)
    /\ \A c \in 1..Len(log) : OncePerMissing(prog.pattern, log[c].args, log[c].evals)
    /\ status \in {"parse", "ready"} => evals = <<>>
    /\ (prog.kind = "declare" /\ Matched) =>
          \A i \in 1..Len(Expected) :
              Cardinality({j \in 1..Len(evals) : evals[j].local = Expected[i].name})
                  = IF Expected[i].byDefault THEN 1 ELSE 0
    /\ prog = add =>
          \A c \in 1..Len(log) :
              /\ log[c].args = <<LNum(1)>> => (log[c].result = Num(6) /\ Len(log[c].evals) = 1)
              /\ log[c].args = <<LNum(1), LNum(2)>> => (log[c].result = Num(3) /\ log[c].evals = <<>>)

(* add(1) called twice: getValue() ran once in each call *)
C5_Witness ==
    /\ prog = add
    /\ Len(log) = 2
    /\ \A c \in 1..2 :
          log[c].args = <<LNum(1)>> /\ log[c].result = Num(6) /\ Len(log[c].evals) = 1

DefinedBefore(earlier, later) ==
    \E a \in 1..Len(env) : \E b \in (a + 1)..Len(env) :
        env[a].name = earlier /\ env[b].name = later

(* C6: names are bound left to right and a default may read only a name
   bound before it: add1(x) with second missing binds second to first and
   returns x + x; a default that reads a name not yet bound throws a
   ReferenceError and binds nothing, it never reads undefined. *)
C6_DefaultsSeeEarlierNamesOnly ==
    /\ Started => EnvNames = SubSeq(BoundNames(prog.pattern), 1, Len(env))
    /\ \A j \in 1..Len(evals) :
          evals[j].d = "ref" =>
              \/ /\ DefinedBefore(evals[j].ref, evals[j].local)
                 /\ Lookup(env, evals[j].local) = Lookup(env, evals[j].ref)
              \/ /\ ~IsBound(env, evals[j].local)
                 /\ ~IsBound(env, evals[j].ref)
                 /\ status = "ReferenceError"
    /\ (prog = add1 /\ status = "done" /\ Len(args) = 1 /\ args[1].v.t = "number") =>
          result = Num(args[1].v.n + args[1].v.n)
    /\ (prog = addForward /\ Started /\ ArgMissing(args, 1)) =>
          (env = <<>> /\ status \in {"binding", "ReferenceError"})

(* add1(2) has returned 4 *)
C6_Witness ==
    /\ prog = add1
    /\ args = <<LNum(2)>>
    /\ status = "done"
    /\ result = Num(4)
    /\ Lookup(env, "second") = Num(2)

(* C6, the error case: (first = second, second) called without first *)
C6_WitnessForward == prog = addForward /\ status = "ReferenceError" /\ env = <<>>

(* C7: a match, successful or failed, leaves every object that existed when
   it began as it was: the source keeps its fields and elements in their
   order, and the array of a rest element is a new one, so that changing it
   later does not change the source. *)
C7_SourceNeverMutated ==
    /\ Len(heap) >= Len(snapshot)
    /\ \A a \in 1..Len(snapshot) : heap[a] = snapshot[a]
    /\ (prog.kind = "declare" /\ Started /\ root.t = "object") =>
          heap[root.n] = AllocLit(prog.source, <<>>).heap[root.n]

(* let [...clonedColors2] = colors, then the clone was changed *)
C7_Witness ==
    /\ prog = Declare(ArrayPattern(<<RestCapture("clonedColors2")>>), colors)
    /\ status = "modified"
    /\ heap[root.n].elems = <<Str("red"), Str("green"), Str("blue")>>
    /\ heap[Lookup(env, "clonedColors2").n].elems
          = <<Str("black"), Str("red"), Str("green"), Str("blue")>>

RestPositions(p) == {i \in 1..Len(p.elems) : p.elems[i].kind = "rest"}

RECURSIVE AtMostOneRestAndLast(_)
AtMostOneRestAndLast(p) ==
    /\ Cardinality(RestPositions(p)) <= 1
    /\ RestPositions(p) \subseteq {Len(p.elems)}
    /\ \A i \in 1..Len(p.elems) :
          p.elems[i].kind = "nested" => AtMostOneRestAndLast(p.elems[i].sub)

(* C8: a pattern or parameter list is accepted only if it has at most one
   rest element and that element is last; any other is rejected when parsed
   as a SyntaxError and is never matched. *)
C8_RestOnlyLast ==
    /\ status \notin {"parse", "SyntaxError"} => AtMostOneRestAndLast(prog.pattern)
    /\ ~AtMostOneRestAndLast(prog.pattern) =>
          /\ status \in {"parse", "SyntaxError"}
          /\ heap = <<>> /\ stack = <<>> /\ env = <<>> /\ log = <<>>

(* function pick (object, ...keys, last) was rejected *)
C8_Witness == prog = pick /\ status = "SyntaxError"

(* The arrays a tag function receives, once its parameters are bound *)
Literals == heap[Lookup(env, prog.pattern.elems[1].local).n]
Substitutions == heap[Lookup(env, "substitutions").n]

SubPositions(tks) == {i \in 1..Len(tks) : tks[i].k = "sub"}

RECURSIVE CookedText(_)
(* The text of a run of tokens without substitution *)
CookedText(tks) == IF tks = <<>> THEN "" ELSE Head(tks).cooked \o CookedText(Tail(tks))

(* C9: a tag function is called with one literal more than substitutions,
   and literals.raw is as long as literals: N substitutions give N + 1
   literals, the first being the text before the first substitution (''
   when there is none) and the last the text after the last one. *)
C9_OneMoreLiteralThanSubstitutions ==
    (prog.kind = "tag" /\ status = "done") =>
        LET N == Cardinality(SubPositions(prog.tmpl))
            firstSub == IF N = 0 THEN Len(prog.tmpl) + 1
                        ELSE CHOOSE i \in SubPositions(prog.tmpl) :
                                 \A j \in SubPositions(prog.tmpl) : i <= j
            lastSub == IF N = 0 THEN 0
                       ELSE CHOOSE i \in SubPositions(prog.tmpl) :
                                \A j \in SubPositions(prog.tmpl) : i >= j
        IN /\ Len(Substitutions.elems) = Len(Literals.elems) - 1
           /\ Len(heap[GetProp(Literals, "raw").n].elems) = Len(Literals.elems)
           /\ Len(Substitutions.elems) = N
           /\ Literals.elems[1] = Str(CookedText(SubSeq(prog.tmpl, 1, firstSub - 1)))
           /\ Literals.elems[N + 1] = Str(CookedText(SubSeq(prog.tmpl, lastSub + 1, Len(prog.tmpl))))

(* passThru`${count} items cost $${(count * price).toFixed(2)}.` *)
C9_Witness ==
    /\ prog = Tagged("passThru", passThru, message15)
    /\ status = "done"
    /\ Literals.elems = <<Str(""), Str(" items cost $"), Str(".")>>
    /\ Len(Substitutions.elems) = 2

RECURSIVE Interleave(_, _)
(* literals[0] + String(substitutions[0]) + literals[1] + ... + literals[N] *)
Interleave(ls, ss) ==
    IF ss = <<>> THEN Head(ls).s
    ELSE Head(ls).s \o String(Head(ss)) \o Interleave(Tail(ls), Tail(ss))

(* The i-th substitution of a template, in source order *)
NthSub(tks, i) ==
    tks[CHOOSE p \in SubPositions(tks) : Cardinality({q \in SubPositions(tks) : q <= p}) = i]

(* Whether one of the values a tag function received is a symbol *)
HasSymbol(vs) == \E i \in 1..Len(vs) : vs[i].t = "symbol"

RoundTrip ==
    /\ TemplateValue(prog.tmpl)
          = [err |-> FALSE, s |-> Interleave(Literals.elems, Substitutions.elems)]
    /\ \A i \in 1..Len(Substitutions.elems) :
          Substitutions.elems[i] = Eval(NthSub(prog.tmpl, i).expr).v

(* C10 as stated: for every template, concatenating the literals and the
   substitutions a tag function receives, each substitution converted with
   String, gives the string the untagged template evaluates to. *)
C10_TagRoundTripEveryTemplate ==
    (prog.kind = "tag" /\ status = "done") => RoundTrip

(* C10, amended: for every template none of whose substitutions is a symbol,
   concatenating the literals and the substitutions a tag function receives,
   each substitution converted with String, gives the string the untagged
   template evaluates to; the substitutions arrive in source order as their
   own values, not as strings.  With a symbol among them String() yields
   'Symbol(...)' while the untagged template throws a TypeError. *)
C10_TagRoundTrip ==
    /\ (prog.kind = "tag" /\ status = "done" /\ ~HasSymbol(Substitutions.elems)) => RoundTrip
    /\ (prog.kind = "tag" /\ status = "done" /\ HasSymbol(Substitutions.elems)) =>
          TemplateValue(prog.tmpl).err
    /\ (prog = Untagged(message15) /\ status = "done") => result = Str("10 items cost $2.50.")
    /\ (prog = Tagged("passThru", passThru, message15) /\ status = "done") =>
          Substitutions.elems = <<Num(10), Str("2.50")>>

C10_Witness ==
    /\ prog = Tagged("passThru", passThru, message15)
    /\ status = "done"
    /\ Interleave(Literals.elems, Substitutions.elems) = "10 items cost $2.50."
    /\ Substitutions.elems[1] = Num(10)

----------------------------------------------------------------------------
(* Two calls in progress at once on one heap.  The language runs one call at
   a time; the steps of a match are the ones above, written as a function of
   the call's own state c and the heap h, so that two calls can take turns. *)

Job(p, as) == [prog |-> p, args |-> as]

(* The declarations, calls and templates two of which are run together *)
ConcJobs ==
    {Job(d, <<>>) : d \in SampleDeclarations}
    \cup {Job(Declare(ObjectPattern(<<Name("type", NoDefault)>>), LPrim(Null)), <<>>)}
    \cup {Job(add, <<LNum(1)>>), Job(add, <<LNum(1), LNum(2)>>),
          Job(addForward, <<LPrim(Undefined), LNum(1)>>),
          Job(pick2, <<LNum(1), LNum(2)>>), Job(pick, <<LNum(1)>>)}
    \cup {Job(f, as) : f \in {setCookie, setCookie2, setCookie3}, as \in CookieArgs}
    \cup {Job(Tagged("passThru", passThru, t), <<>>) : t \in {message15, helloName, nestedSymbol}}
    \cup {Job(Untagged(message15), <<>>), Job(Tagged("tagfunc", tagfunc, hello), <<>>)}

(* A call that has not started *)
NewCall(j) ==
    [prog |-> j.prog, args |-> j.args, status |-> "parse", stack |-> <<>>, env |-> <<>>,
     evals |-> <<>>, result |-> Undefined, root |-> Undefined]

Running(c) == c.status \in {"parse", "ready", "binding"}

(* as Fetch, on the heap h *)
FetchFrom(h, f, e) ==
    IF f.shape = "object" THEN GetProp(h[f.src], e.key) ELSE GetIndex(h[f.src], f.idx)

(* as BeginMatch, BeginCall, EvalTemplate, TagCall and TagThrows: the first
   step of a statement, which evaluates what the pattern is matched against *)
BeginStep(c, h) ==
    CASE c.prog.kind = "declare" ->
            LET r == AllocLit(c.prog.source, h)
            IN [call |-> [c EXCEPT !.root = r.val,
                                   !.status = IF IsNullish(r.val) THEN "TypeError" ELSE "binding",
                                   !.stack = IF IsNullish(r.val) THEN <<>>
                                             ELSE <<Frame(c.prog.pattern, r.val.n)>>],
                heap |-> r.heap]
      [] c.prog.kind = "call" ->
            LET r == AllocItems(c.args, h, <<>>)
                g == Append(r.heap, Arr(r.vals))
            IN [call |-> [c EXCEPT !.root = Ref(Len(g)), !.status = "binding",
                                   !.stack = <<Frame(c.prog.pattern, Len(g))>>],
                heap |-> g]
      [] c.prog.kind = "template" ->
            IF TemplateValue(c.prog.tmpl).err
            THEN [call |-> [c EXCEPT !.status = "TypeError"], heap |-> h]
            ELSE [call |-> [c EXCEPT !.status = "done",
                                     !.result = Str(TemplateValue(c.prog.tmpl).s)],
                  heap |-> h]
      [] OTHER ->
            IF SubstitutionThrows(c.prog.tmpl)
            THEN [call |-> [c EXCEPT !.status = "TypeError"], heap |-> h]
            ELSE LET rawAt == Len(h) + 1
                     litAt == Len(h) + 2
                     raws == Arr(RawStrings(c.prog.tmpl))
                     lits == [Arr(CookedStrings(c.prog.tmpl))
                                EXCEPT !.keys = <<"raw">>, !.vals = <<Ref(rawAt)>>]
                     as == <<Ref(litAt)>> \o SubstitutionValues(c.prog.tmpl)
                     g == h \o <<raws, lits, Arr(as)>>
                 IN [call |-> [c EXCEPT !.root = Ref(Len(g)), !.status = "binding",
                                        !.args = [i \in 1..Len(as) |-> LPrim(as[i])],
                                        !.stack = <<Frame(c.prog.pattern, Len(g))>>],
                     heap |-> g]

(* as BindLeaf, BindNested, BindRest and SkipElision: the first element of
   the innermost pattern *)
BindStep(c, h) ==
    LET f == Head(c.stack)
        e == Head(f.elems)
        v == FetchFrom(h, f, e)
        r == EvalDefault(e.dflt, c.env, h)
        w == IF UsesDefault(e, v) THEN r.val ELSE v
        g == IF UsesDefault(e, v) THEN r.heap ELSE h
        adv == <<[f EXCEPT !.elems = Tail(@), !.idx = @ + 1]>> \o Tail(c.stack)
        ev == IF UsesDefault(e, v)
              THEN Append(c.evals, [local |-> e.local, key |-> e.key, idx |-> f.idx,
                                    depth |-> Len(c.stack), d |-> e.dflt.d, ref |-> e.dflt.name])
              ELSE c.evals
    IN CASE e.kind \in {"name", "rename"} ->
               IF UsesDefault(e, v) /\ r.err
               THEN [call |-> [c EXCEPT !.evals = ev, !.status = "ReferenceError"], heap |-> g]
               ELSE [call |-> [c EXCEPT !.evals = ev, !.env = Bind(c.env, e.local, w),
                                        !.stack = adv],
                     heap |-> g]
         [] e.kind = "nested" ->
               IF UsesDefault(e, v) /\ r.err
               THEN [call |-> [c EXCEPT !.evals = ev, !.status = "ReferenceError"], heap |-> g]
               ELSE IF IsNullish(w)
               THEN [call |-> [c EXCEPT !.evals = ev, !.status = "TypeError"], heap |-> g]
               ELSE [call |-> [c EXCEPT !.evals = ev, !.stack = <<Frame(e.sub, w.n)>> \o adv],
                     heap |-> g]
         [] e.kind = "rest" ->
               [call |-> [c EXCEPT !.env = Bind(c.env, e.local, Ref(RestTarget(h, f))),
                                   !.stack = adv],
                heap |-> Append(h, Arr(RestOf(h[f.src], f.idx)))]
         [] OTHER -> [call |-> [c EXCEPT !.stack = adv], heap |-> h]

(* One step of the call c on the heap h: the call and the heap after it *)
StepCall(c, h) ==
    CASE c.status = "parse" ->
            [call |-> [c EXCEPT !.status = IF WellFormed(c.prog.pattern)
                                           THEN "ready" ELSE "SyntaxError"],
             heap |-> h]
      [] c.status = "ready" -> BeginStep(c, h)
      [] c.status = "binding" /\ c.stack = <<>> ->
            [call |-> [c EXCEPT !.status = "done",
                                !.result = IF c.prog.kind \in {"call", "tag"}
                                           THEN Body(c.prog, c.env) ELSE @],
             heap |-> h]
      [] c.status = "binding" /\ c.stack # <<>> /\ Head(c.stack).elems = <<>> ->
            [call |-> [c EXCEPT !.stack = Tail(@)], heap |-> h]
      [] OTHER -> BindStep(c, h)

(* The state of the other scripts, which the two calls leave alone *)
exceptConc == <<matcher, scope, symbols, regexps, objects>>

Idle == <<>>

(* The single match is not in use *)
MatcherIdle ==
    /\ heap = <<>>
    /\ prog = Idle
    /\ status = "idle"
    /\ stack = <<>>
    /\ env = <<>>
    /\ evals = <<>>
    /\ result = Undefined
    /\ log = <<>>
    /\ snapshot = <<>>
    /\ args = <<>>
    /\ root = Undefined

ConcInit ==
    /\ \E j1 \in ConcJobs, j2 \in ConcJobs :
          conc = [heap |-> <<>>, owner |-> <<>>, jobs |-> <<j1, j2>>,
                  calls |-> <<NewCall(j1), NewCall(j2)>>]
    /\ MatcherIdle
    /\ scope = Idle
    /\ symbols = Idle
    /\ regexps = Idle
    /\ objects = Idle

(* Either call takes its next step; what it allocates is its own *)
ConcStep ==
    /\ \E i \in 1..2 :
          /\ Running(conc.calls[i])
          /\ LET r == StepCall(conc.calls[i], conc.heap)
             IN conc' = [conc EXCEPT
                          !.heap = r.heap,
                          !.calls[i] = r.call,
                          !.owner = @ \o [k \in 1..(Len(r.heap) - Len(conc.heap)) |-> i]]
    /\ UNCHANGED exceptConc

SpecConc == ConcInit /\ [][ConcStep]_vars

(* A value with the objects it refers to written out, so that two values
   are compared by content and not by address *)
RECURSIVE DeepValue(_, _)
DeepValue(v, h) ==
    IF v.t = "object"
    THEN LET o == h[v.n]
         IN [t |-> "object", kind |-> o.kind, keys |-> o.keys,
             elems |-> [k \in 1..Len(o.elems) |-> DeepValue(o.elems[k], h)],
             vals |-> [k \in 1..Len(o.vals) |-> DeepValue(o.vals[k], h)]]
    ELSE [t |-> v.t, kind |-> "", keys |-> <<>>, elems |-> <<v>>, vals |-> <<>>]

(* What a call leaves behind: how it ended, its bindings, its return value
   and the defaults it evaluated *)
Outcome(c, h) ==
    [status |-> c.status,
     env |-> [k \in 1..Len(c.env) |-> [name |-> c.env[k].name, val |-> DeepValue(c.env[k].val, h)]],
     result |-> DeepValue(c.result, h),
     evals |-> c.evals]

RECURSIVE RunAlone(_, _)
(* The call c run to its end with nothing else running *)
RunAlone(c, h) ==
    IF Running(c)
    THEN LET r == StepCall(c, h) IN RunAlone(r.call, r.heap)
    ELSE Outcome(c, h)

(* The addresses call i allocated *)
Owned(i) == {a \in 1..Len(conc.heap) : conc.owner[a] = i}

(* The addresses an object refers to *)
RefsIn(o) ==
    {o.elems[k].n : k \in {k \in 1..Len(o.elems) : o.elems[k].t = "object"}}
    \cup {o.vals[k].n : k \in {k \in 1..Len(o.vals) : o.vals[k].t = "object"}}

(* The addresses a call holds: what it matches against, what its patterns
   are reading, and what its names are bound to *)
Held(c) ==
    {c.stack[k].src : k \in 1..Len(c.stack)}
    \cup {c.env[k].val.n : k \in {k \in 1..Len(c.env) : c.env[k].val.t = "object"}}
    \cup (IF c.root.t = "object" THEN {c.root.n} ELSE {})

(* C11: calls run together on independent inputs do not interfere.  Under
   every interleaving of their steps a call that has ended has the outcome
   (bindings, return value or failure) it has when run alone, and at every
   moment all a call holds or can reach from what it holds was allocated by
   that call: no call reads or writes anything of the other. *)
C11_ConcurrentCallsIndependent ==
    \A i \in 1..2 :
        /\ ~Running(conc.calls[i]) =>
              Outcome(conc.calls[i], conc.heap) = RunAlone(NewCall(conc.jobs[i]), <<>>)
        /\ Held(conc.calls[i]) \subseteq Owned(i)
        /\ \A a \in Owned(i) : RefsIn(conc.heap[a]) \subseteq Owned(i)

(* setCookie2('type', 'js') and pick2(1, 2) have both returned, having
   allocated in turn: arguments, arguments, default object, rest array *)
C11_Witness ==
    /\ conc.jobs = <<Job(setCookie2, <<LStr("type"), LStr("js")>>), Job(pick2, <<LNum(1), LNum(2)>>)>>
    /\ conc.calls[1].status = "done"
    /\ conc.calls[2].status = "done"
    /\ conc.owner = <<1, 2, 1, 2>>
    /\ conc.heap[4] = Arr(<<Num(2)>>)

----------------------------------------------------------------------------
(* Block bindings (01-block-bindings.js): statements and expressions *)

MaxLater == 2

(* for (...; i < 10; i++) *)
LoopLimit == 10

XConst(v) == [x |-> "const", name |-> "", v |-> v]
XRead(nm) == [x |-> "read", name |-> nm, v |-> Undefined]
XTypeof(nm) == [x |-> "typeof", name |-> nm, v |-> Undefined]

Stmt(op, kind, nm, e, body, lim, ks) ==
    [op |-> op, kind |-> kind, name |-> nm, e |-> e, body |-> body, limit |-> lim, keys |-> ks]

(* console.log(e) *)
SLog(e) == Stmt("log", "", "", e, <<>>, 0, <<>>)
(* var / let / const name = e; a declaration without initialiser has e = undefined *)
SDeclare(kind, nm, e) == Stmt("declare", kind, nm, e, <<>>, 0, <<>>)
(* name = e *)
SAssign(nm, e) == Stmt("assign", "", nm, e, <<>>, 0, <<>>)
(* if (e) { body } *)
SIf(e, body) == Stmt("if", "", "", e, body, 0, <<>>)
(* for (kind name = 0; name < lim; name++) { body } *)
SFor(kind, nm, lim, body) == Stmt("for", kind, nm, XConst(Num(0)), body, lim, <<>>)
(* for (kind name in { ks }) { body } *)
SForIn(kind, nm, ks, body) == Stmt("forin", kind, nm, XConst(Undefined), body, 0, ks)
(* funcs.push(function () { console.log(name) }) *)
SPush(nm) == Stmt("push", "", nm, XConst(Undefined), <<>>, 0, <<>>)
(* funcs.forEach(function (func) { func() }) *)
SForEach == Stmt("each", "", "", XConst(Undefined), <<>>, 0, <<>>)

(* let someLet; console.log(someLet); someLet = 10; console.log(someLet),
   with or without the read the sample has in a comment before the declaration *)
someLetScript(early) ==
    (IF early THEN <<SLog(XRead("someLet"))>> ELSE <<>>)
    \o <<SDeclare("let", "someLet", XConst(Undefined)), SLog(XRead("someLet")),
         SAssign("someLet", XConst(Num(10))), SLog(XRead("someLet"))>>

(* if (condition) { // console.log(typeof value)
                    let value; value = 'blue' } *)
tdzBlockScript(condition, early) ==
    <<SIf(XConst(condition),
          (IF early THEN <<SLog(XTypeof("value"))>> ELSE <<>>)
          \o <<SDeclare("let", "value", XConst(Undefined)),
               SAssign("value", XConst(Str("blue")))>>)>>

(* console.log(typeof value); if (condition) { // console.log(typeof value)
                                              const value = 'blue' } *)
typeofScript(condition, early) ==
    <<SLog(XTypeof("value")),
      SIf(XConst(condition),
          (IF early THEN <<SLog(XTypeof("value"))>> ELSE <<>>)
          \o <<SDeclare("const", "value", XConst(Str("blue")))>>)>>

(* console.log(i); for (var i = 0; i < 10; i++) console.log(i); console.log(i) *)
varLoopScript(kind, lim) ==
    <<SLog(XRead("i")), SFor(kind, "i", lim, <<SLog(XRead("i"))>>), SLog(XRead("i"))>>

(* for (var k = 0; k < 10; k++) { funcs.push(function () { console.log(k) }) }
   funcs.forEach(function (func) { func() }), and funcs2 with let *)
funcsScript(kind, nm, lim) == <<SFor(kind, nm, lim, <<SPush(nm)>>), SForEach>>

(* for (const key in object) { funcs3.push(function () { console.log(key) }) }
   funcs3.forEach(function (func) { func() }) *)
funcs3Script(kind, ks) == <<SForIn(kind, "key", ks, <<SPush("key")>>), SForEach>>

Limits == {0, 1, 2, LoopLimit}

(* let condition: never assigned in the sample; the variants also take the branch *)
Conditions == {Undefined, Bool(TRUE)}

Scripts ==
    {someLetScript(early) : early \in BOOLEAN}
    \cup {tdzBlockScript(c, early) : c \in Conditions, early \in BOOLEAN}
    \cup {typeofScript(c, early) : c \in Conditions, early \in BOOLEAN}
    \cup {varLoopScript(kind, lim) : kind \in {"var", "let"}, lim \in Limits}
    \cup {funcsScript("var", "k", lim) : lim \in Limits}
    \cup {funcsScript("let", "i", lim) : lim \in Limits}
    \cup {funcs3Script(kind, ks) : kind \in {"const", "let", "var"},
                                   ks \in {<<>>, <<"a">>, <<"a", "b", "c">>}}

----------------------------------------------------------------------------
(* Scopes and bindings *)

Binding(nm, kind, tdz, v) == [name |-> nm, kind |-> kind, tdz |-> tdz, val |-> v]
NewScope(parent, bs) == [parent |-> parent, vars |-> bs]

RECURSIVE VarNames(_)
(* The names declared with var in a statement list, blocks and loops included:
   they are hoisted to the top of the function or the global scope *)
VarNames(ss) ==
    IF ss = <<>> THEN <<>>
    ELSE LET s == Head(ss)
             here == IF s.op \in {"declare", "for", "forin"} /\ s.kind = "var"
                     THEN <<s.name>> ELSE <<>>
         IN here \o VarNames(s.body) \o VarNames(Tail(ss))

(* The names declared with let or const directly in a block *)
LexNames(ss) ==
    SelectSeq(ss, LAMBDA s : s.op = "declare" /\ s.kind \in {"let", "const"})

(* The bindings a block starts with: let and const are there from the entry
   of the block but cannot be accessed until their declaration *)
BlockBindings(ss) ==
    [k \in 1..Len(LexNames(ss)) |->
        Binding(LexNames(ss)[k].name, LexNames(ss)[k].kind, TRUE, Undefined)]

(* The bindings of the global scope: also every var of the script, undefined *)
GlobalBindings(ss) ==
    [k \in 1..Len(VarNames(ss)) |-> Binding(VarNames(ss)[k], "var", FALSE, Undefined)]
    \o BlockBindings(ss)

HasName(sc, nm) == \E k \in 1..Len(sc.vars) : sc.vars[k].name = nm
NameIndex(sc, nm) == CHOOSE k \in 1..Len(sc.vars) : sc.vars[k].name = nm

RECURSIVE Resolve(_, _, _)
(* The innermost scope, from scope a outwards, that has a binding of nm; 0 if none *)
Resolve(scs, a, nm) ==
    IF a = 0 THEN 0
    ELSE IF HasName(scs[a], nm) THEN a
    ELSE Resolve(scs, scs[a].parent, nm)

TypeName(v) == IF v.t = "null" THEN "object" ELSE v.t

(* as ReadName, but reading a let or const that is not yet declared as
   undefined, the way a hoisted var is read *)
ReadNameHoisted(scs, a, x) ==
    LET s == Resolve(scs, a, x.name)
        b == scs[s].vars[NameIndex(scs[s], x.name)]
    IN IF s = 0
       THEN IF x.x = "typeof" THEN [err |-> "", v |-> Str("undefined")]
            ELSE [err |-> "ReferenceError", v |-> Undefined]
       ELSE [err |-> "", v |-> IF x.x = "typeof" THEN Str(TypeName(b.val)) ELSE b.val]

(* name or typeof name, evaluated in scope a *)
ReadName(scs, a, x) ==
    LET s == Resolve(scs, a, x.name)
        b == scs[s].vars[NameIndex(scs[s], x.name)]
    IN IF s = 0
       THEN IF x.x = "typeof" THEN [err |-> "", v |-> Str("undefined")]
            ELSE [err |-> "ReferenceError", v |-> Undefined]
       ELSE IF b.tdz THEN [err |-> "ReferenceError", v |-> Undefined]
       ELSE [err |-> "", v |-> IF x.x = "typeof" THEN Str(TypeName(b.val)) ELSE b.val]

EvalX(scs, a, x) == IF x.x = "const" THEN [err |-> "", v |-> x.v] ELSE ReadName(scs, a, x)

(* if (e): undefined, null, false, 0, NaN and '' do not take the branch *)
Truthy(v) == v \notin {Undefined, Null, Bool(FALSE), Num(0), NaN, Str("")}

(* The scopes once the binding of nm in scope s holds v *)
SetVar(scs, s, nm, v) ==
    [scs EXCEPT ![s].vars[NameIndex(scs[s], nm)].val = v,
                ![s].vars[NameIndex(scs[s], nm)].tdz = FALSE]

(* name = v from scope a.  An undeclared name becomes a global variable, a
   let or const before its declaration cannot be written, a const never *)
AssignName(scs, a, nm, v) ==
    LET s == Resolve(scs, a, nm)
        b == scs[s].vars[NameIndex(scs[s], nm)]
    IN IF s = 0
       THEN [err |-> "", scopes |-> [scs EXCEPT ![1].vars = Append(@, Binding(nm, "var", FALSE, v))]]
       ELSE IF b.tdz THEN [err |-> "ReferenceError", scopes |-> scs]
       ELSE IF b.kind = "const" THEN [err |-> "TypeError", scopes |-> scs]
       ELSE [err |-> "", scopes |-> SetVar(scs, s, nm, v)]

(* as PerIteration, but with one binding for the whole loop whatever the
   keyword, as early implementations of let had it *)
PerIterationNever(kind) == FALSE

(* as PerIteration, but with a new binding on each iteration for var too *)
PerIterationAlways(kind) == TRUE

(* Whether a loop declared with this keyword creates a new binding of its
   variable on each iteration *)
PerIteration(kind) == kind \in {"let", "const"}

NoStmt == Stmt("none", "", "", XConst(Undefined), <<>>, 0, <<>>)

CtrlFrame(k, ss, loop, a, i) == [k |-> k, stmts |-> ss, loop |-> loop, sc |-> a, idx |-> i]

(* function () { console.log(name) }, created in scope a *)
Closure(a, nm) == [sc |-> a, name |-> nm]

(* One line of output: the value, and which function of funcs logged it
   (0: the script itself) *)
Line(n, v) == [by |-> n, v |-> v]

Top == Head(scope.ctrl)
Cur == Head(Top.stmts)

(* The frames once the current statement of the innermost block is done *)
Done == <<[Top EXCEPT !.stmts = Tail(@)]>> \o Tail(scope.ctrl)

At(op) ==
    /\ scope.status = "run"
    /\ scope.ctrl # <<>>
    /\ Top.k = "block"
    /\ Top.stmts # <<>>
    /\ Cur.op = op

In(k) ==
    /\ scope.status = "run"
    /\ scope.ctrl # <<>>
    /\ Top.k = k

exceptScope == <<matcher, conc, symbols, regexps, objects>>

ScopeInit ==
    /\ \E ss \in Scripts :
          scope = [script |-> ss,
                   ctrl |-> <<CtrlFrame("block", ss, NoStmt, 1, 0)>>,
                   scopes |-> <<NewScope(0, GlobalBindings(ss))>>,
                   funcs |-> <<>>, out |-> <<>>, status |-> "run", later |-> 0]
    /\ MatcherIdle
    /\ conc = Idle
    /\ symbols = Idle
    /\ regexps = Idle
    /\ objects = Idle

(* console.log(e) *)
ExecLog ==
    /\ At("log")
    /\ LET r == EvalX(scope.scopes, Top.sc, Cur.e)
       IN scope' = IF r.err # ""
                   THEN [scope EXCEPT !.status = r.err]
                   ELSE [scope EXCEPT !.out = Append(@, Line(0, r.v)), !.ctrl = Done]
    /\ UNCHANGED exceptScope

(* let name = e, const name = e: the binding can be accessed from here on;
   var name = e: an assignment to the hoisted variable *)
ExecDeclare ==
    /\ At("declare")
    /\ LET r == EvalX(scope.scopes, Top.sc, Cur.e)
           s == Resolve(scope.scopes, Top.sc, Cur.name)
       IN scope' = IF r.err # ""
                   THEN [scope EXCEPT !.status = r.err]
                   ELSE [scope EXCEPT !.scopes = SetVar(@, s, Cur.name, r.v), !.ctrl = Done]
    /\ UNCHANGED exceptScope

(* name = e *)
ExecAssign ==
    /\ At("assign")
    /\ LET r == EvalX(scope.scopes, Top.sc, Cur.e)
           w == AssignName(scope.scopes, Top.sc, Cur.name, r.v)
       IN scope' = IF r.err # "" THEN [scope EXCEPT !.status = r.err]
                   ELSE IF w.err # "" THEN [scope EXCEPT !.status = w.err]
                   ELSE [scope EXCEPT !.scopes = w.scopes, !.ctrl = Done]
    /\ UNCHANGED exceptScope

(* if (e) { body }: the block is a new scope *)
ExecIf ==
    /\ At("if")
    /\ LET r == EvalX(scope.scopes, Top.sc, Cur.e)
           a == Len(scope.scopes) + 1
       IN scope' = IF r.err # "" THEN [scope EXCEPT !.status = r.err]
                   ELSE IF Truthy(r.v)
                   THEN [scope EXCEPT
                          !.scopes = Append(@, NewScope(Top.sc, BlockBindings(Cur.body))),
                          !.ctrl = <<CtrlFrame("block", Cur.body, NoStmt, a, 0)>> \o Done]
                   ELSE [scope EXCEPT !.ctrl = Done]
    /\ UNCHANGED exceptScope

(* The end of a block; the end of the outermost one is the end of the script *)
ExitBlock ==
    /\ In("block")
    /\ Top.stmts = <<>>
    /\ scope' = [scope EXCEPT !.ctrl = Tail(@),
                              !.status = IF Tail(scope.ctrl) = <<>> THEN "done" ELSE @]
    /\ UNCHANGED exceptScope

(* for (kind name = 0; ...): let declares the variable in a scope of the
   loop, var assigns the hoisted variable *)
ForInit ==
    /\ At("for")
    /\ LET a == Len(scope.scopes) + 1
           w == AssignName(scope.scopes, Top.sc, Cur.name, Cur.e.v)
       IN scope' = IF PerIteration(Cur.kind)
                   THEN [scope EXCEPT
                          !.scopes = Append(@, NewScope(Top.sc,
                                         <<Binding(Cur.name, Cur.kind, FALSE, Cur.e.v)>>)),
                          !.ctrl = <<CtrlFrame("for", <<>>, Cur, a, 0)>> \o Done]
                   ELSE [scope EXCEPT
                          !.scopes = w.scopes,
                          !.ctrl = <<CtrlFrame("for", <<>>, Cur, Top.sc, 0)>> \o Done]
    /\ UNCHANGED exceptScope

(* name < limit: runs the body, a block, or leaves the loop *)
ForTest ==
    /\ In("for")
    /\ Top.idx = 0
    /\ LET v == ReadName(scope.scopes, Top.sc, XRead(Top.loop.name)).v
           b == Len(scope.scopes) + 1
       IN scope' = IF v.n < Top.loop.limit
                   THEN [scope EXCEPT
                          !.scopes = Append(@, NewScope(Top.sc, BlockBindings(Top.loop.body))),
                          !.ctrl = <<CtrlFrame("block", Top.loop.body, NoStmt, b, 0),
                                     [Top EXCEPT !.idx = 1]>> \o Tail(scope.ctrl)]
                   ELSE [scope EXCEPT !.ctrl = Tail(@)]
    /\ UNCHANGED exceptScope

(* name++: with let the next iteration has a new variable, initialised to
   the value of the variable of the iteration before, and that one is incremented *)
ForNext ==
    /\ In("for")
    /\ Top.idx = 1
    /\ LET nm == Top.loop.name
           v == ReadName(scope.scopes, Top.sc, XRead(nm)).v
           a == Len(scope.scopes) + 1
           w == AssignName(scope.scopes, Top.sc, nm, Num(v.n + 1))
       IN scope' = IF PerIteration(Top.loop.kind)
                   THEN [scope EXCEPT
                          !.scopes = Append(@, NewScope(scope.scopes[Top.sc].parent,
                                         <<Binding(nm, Top.loop.kind, FALSE, Num(v.n + 1))>>)),
                          !.ctrl = <<[Top EXCEPT !.sc = a, !.idx = 0]>> \o Tail(scope.ctrl)]
                   ELSE [scope EXCEPT
                          !.scopes = w.scopes,
                          !.ctrl = <<[Top EXCEPT !.idx = 0]>> \o Tail(scope.ctrl)]
    /\ UNCHANGED exceptScope

(* for (kind name in object) *)
ForInInit ==
    /\ At("forin")
    /\ scope' = [scope EXCEPT !.ctrl = <<CtrlFrame("forin", <<>>, Cur, Top.sc, 0)>> \o Done]
    /\ UNCHANGED exceptScope

(* The next key of the object, in a new binding for let and const, then
   the body; after the last key the loop ends *)
ForInNext ==
    /\ In("forin")
    /\ LET nm == Top.loop.name
           key == Str(Top.loop.keys[Top.idx + 1])
           a == Len(scope.scopes) + 1
           w == AssignName(scope.scopes, Top.sc, nm, key)
           next == <<[Top EXCEPT !.idx = @ + 1]>> \o Tail(scope.ctrl)
       IN scope' = IF Top.idx >= Len(Top.loop.keys)
                   THEN [scope EXCEPT !.ctrl = Tail(@)]
                   ELSE IF PerIteration(Top.loop.kind)
                   THEN [scope EXCEPT
                          !.scopes = @ \o <<NewScope(Top.sc, <<Binding(nm, Top.loop.kind, FALSE, key)>>),
                                            NewScope(a, BlockBindings(Top.loop.body))>>,
                          !.ctrl = <<CtrlFrame("block", Top.loop.body, NoStmt, a + 1, 0)>> \o next]
                   ELSE [scope EXCEPT
                          !.scopes = Append(w.scopes, NewScope(Top.sc, BlockBindings(Top.loop.body))),
                          !.ctrl = <<CtrlFrame("block", Top.loop.body, NoStmt, a, 0)>> \o next]
    /\ UNCHANGED exceptScope

(* funcs.push(function () { console.log(name) }): the function keeps the
   scope it is created in *)
ExecPush ==
    /\ At("push")
    /\ scope' = [scope EXCEPT !.funcs = Append(@, Closure(Top.sc, Cur.name)), !.ctrl = Done]
    /\ UNCHANGED exceptScope

(* func(): console.log(name) in the scope the function was created in *)
CallFunc(n) ==
    LET f == scope.funcs[n]
        r == ReadName(scope.scopes, f.sc, XRead(f.name))
    IN IF r.err # "" THEN [scope EXCEPT !.status = r.err]
       ELSE [scope EXCEPT !.out = Append(@, Line(n, r.v))]

(* funcs.forEach(...) *)
ForEachInit ==
    /\ At("each")
    /\ scope' = [scope EXCEPT !.ctrl = <<CtrlFrame("each", <<>>, NoStmt, Top.sc, 0)>> \o Done]
    /\ UNCHANGED exceptScope

(* function (func) { func() } on the next element of funcs *)
ForEachStep ==
    /\ In("each")
    /\ scope' = IF Top.idx >= Len(scope.funcs)
                THEN [scope EXCEPT !.ctrl = Tail(@)]
                ELSE [CallFunc(Top.idx + 1) EXCEPT
                        !.ctrl = <<[Top EXCEPT !.idx = @ + 1]>> \o Tail(scope.ctrl)]
    /\ UNCHANGED exceptScope

(* Any of the functions is called again after the script *)
CallLater ==
    /\ scope.status = "done"
    /\ scope.later < MaxLater
    /\ \E n \in 1..Len(scope.funcs) : scope' = [CallFunc(n) EXCEPT !.later = @ + 1]
    /\ UNCHANGED exceptScope

BlockNext ==
    \/ ExecLog
    \/ ExecDeclare
    \/ ExecAssign
    \/ ExecIf
    \/ ExitBlock
    \/ ForInit
    \/ ForTest
    \/ ForNext
    \/ ForInInit
    \/ ForInNext
    \/ ExecPush
    \/ ForEachInit
    \/ ForEachStep
    \/ CallLater

SpecBlock == ScopeInit /\ [][BlockNext]_vars

----------------------------------------------------------------------------
(* Claims on block bindings *)

(* The loop a script starts with, and whether its body pushes a function
   that logs the loop variable *)
Loop == scope.script[1]
PushLoop == Loop.op \in {"for", "forin"} /\ Loop.body = <<SPush(Loop.name)>>

(* The number of iterations of the loop *)
Iterations == IF Loop.op = "for" THEN Loop.limit ELSE Len(Loop.keys)

(* The value the loop variable has in iteration n (counted from 1) *)
IterationValue(n) == IF Loop.op = "for" THEN Num(n - 1) ELSE Str(Loop.keys[n])

(* The scope holding the variable the n-th function of funcs logs *)
BindingOf(n) == Resolve(scope.scopes, scope.funcs[n].sc, scope.funcs[n].name)

BindingValue(n) ==
    scope.scopes[BindingOf(n)].vars[NameIndex(scope.scopes[BindingOf(n)], scope.funcs[n].name)].val

(* The output of the script itself, without the calls made after it *)
ScriptOut == SubSeq(scope.out, 1, Len(scope.out) - scope.later)

(* C12: a for loop declared with let, and a for-in loop declared with let or
   const, has a new binding of its variable on each iteration: the function
   pushed in iteration n keeps a binding of its own whose value stays the
   value of that iteration, every call of it, whenever made, logs that value,
   and forEach logs 0, 1, ..., 9 (or 'a', 'b', 'c') in order. *)
C12_LetLoopBindsPerIteration ==
    (PushLoop /\ Loop.kind \in {"let", "const"}) =>
        /\ scope.status \in {"run", "done"}
        /\ \A n \in 1..Len(scope.funcs) :
              /\ BindingValue(n) = IterationValue(n)
              /\ \A m \in 1..Len(scope.funcs) : m # n => BindingOf(m) # BindingOf(n)
        /\ \A k \in 1..Len(scope.out) :
              scope.out[k].by > 0 /\ scope.out[k].v = IterationValue(scope.out[k].by)
        /\ scope.status = "done" =>
              ScriptOut = [n \in 1..Iterations |-> Line(n, IterationValue(n))]

(* funcs2 after its forEach, then the third and the tenth function called again *)
C12_Witness ==
    /\ scope.script = funcsScript("let", "i", LoopLimit)
    /\ scope.status = "done"
    /\ Len(scope.out) = LoopLimit + 2
    /\ scope.out[LoopLimit] = Line(10, Num(9))
    /\ scope.out[LoopLimit + 1] = Line(3, Num(2))
    /\ scope.out[LoopLimit + 2] = Line(10, Num(9))

(* funcs3 after its forEach: 'a', 'b', 'c' *)
C12_WitnessForIn ==
    /\ scope.script = funcs3Script("const", <<"a", "b", "c">>)
    /\ scope.status = "done"
    /\ ScriptOut = <<Line(1, Str("a")), Line(2, Str("b")), Line(3, Str("c"))>>

(* C13: in a for loop declared with var all the functions pushed share the
   one binding of the loop variable, in the global scope: every call made
   after the loop logs the value that ended the loop (10), never 0..9.  The
   variable reads undefined before the loop, being hoisted, and the value
   that ended the loop after it. *)
C13_VarLoopSharesBinding ==
    /\ (PushLoop /\ Loop.op = "for" /\ Loop.kind = "var") =>
          /\ scope.status \in {"run", "done"}
          /\ \A n \in 1..Len(scope.funcs) : BindingOf(n) = 1
          /\ \A k \in 1..Len(scope.out) :
                scope.out[k].by > 0 /\ scope.out[k].v = Num(Loop.limit)
          /\ scope.status = "done" =>
                /\ ScriptOut = [n \in 1..Loop.limit |-> Line(n, Num(Loop.limit))]
                /\ scope.scopes[1].vars = <<Binding("k", "var", FALSE, Num(Loop.limit))>>
    /\ \A lim \in Limits :
          (scope.script = varLoopScript("var", lim) /\ scope.status # "run") =>
              /\ scope.status = "done"
              /\ scope.out = <<Line(0, Undefined)>> \o [n \in 1..lim |-> Line(0, Num(n - 1))]
                             \o <<Line(0, Num(lim))>>

(* funcs after its forEach: ten times 10, and again when called later *)
C13_Witness ==
    /\ scope.script = funcsScript("var", "k", LoopLimit)
    /\ scope.status = "done"
    /\ Len(scope.out) = LoopLimit + 1
    /\ \A k \in 1..(LoopLimit + 1) : scope.out[k].v = Num(10)
    /\ scope.out[LoopLimit + 1].by = 1

(* console.log(i) after for (var i = 0; i < 10; i++): 10 *)
C13_WitnessAfter ==
    /\ scope.script = varLoopScript("var", LoopLimit)
    /\ scope.status = "done"
    /\ scope.out[1] = Line(0, Undefined)
    /\ scope.out[LoopLimit + 2] = Line(0, Num(10))

(* The statement about to run reads (or takes the typeof) a let or const of
   an enclosing block that has not been declared yet *)
ReadsInZone ==
    /\ scope.ctrl # <<>>
    /\ Top.k = "block"
    /\ Top.stmts # <<>>
    /\ Cur.op = "log"
    /\ Cur.e.x \in {"read", "typeof"}
    /\ LET s == Resolve(scope.scopes, Top.sc, Cur.e.name)
       IN s # 0 /\ scope.scopes[s].vars[NameIndex(scope.scopes[s], Cur.e.name)].tdz

(* The statements of the script not yet completed, when it is in its
   outermost block *)
Remaining == IF scope.ctrl = <<>> THEN 0 ELSE Len(scope.ctrl[Len(scope.ctrl)].stmts)

(* The statement about to run reads a name that no enclosing scope declares *)
ReadsUndeclared ==
    /\ scope.ctrl # <<>>
    /\ Top.k = "block"
    /\ Top.stmts # <<>>
    /\ Cur.op = "log"
    /\ Cur.e.x = "read"
    /\ Resolve(scope.scopes, Top.sc, Cur.e.name) = 0

(* C14: a let or const binding is in its temporal dead zone from the entry
   of its block until its declaration runs.  A read in the zone, typeof
   included, throws a ReferenceError and nothing is logged; the zone ends at
   the declaration, not at the first assignment (let someLet reads
   undefined, and 10 after someLet = 10); typeof of the same name outside
   the declaring block is 'undefined'. *)
C14_TemporalDeadZone ==
    /\ scope.status = "ReferenceError" => (ReadsInZone \/ ReadsUndeclared)
    /\ scope.script = someLetScript(TRUE) =>
          /\ scope.out = <<>>
          /\ scope.status \in {"run", "ReferenceError"}
          /\ Remaining = 5
    /\ scope.script = someLetScript(FALSE) =>
          /\ scope.status \in {"run", "done"}
          /\ Remaining <= 2 => scope.out[1] = Line(0, Undefined)
          /\ scope.status = "done" => scope.out = <<Line(0, Undefined), Line(0, Num(10))>>
    /\ \A c \in Conditions :
          /\ scope.script = tdzBlockScript(c, TRUE) =>
                /\ scope.out = <<>>
                /\ scope.status = (IF c = Bool(TRUE) THEN "ReferenceError" ELSE "done")
                   \/ scope.status = "run"
                /\ scope.status = "ReferenceError" => Len(Top.stmts) = 3
          /\ scope.script = tdzBlockScript(c, FALSE) =>
                /\ scope.out = <<>>
                /\ scope.status \in {"run", "done"}
          /\ scope.script = typeofScript(c, TRUE) =>
                /\ scope.out \in {<<>>, <<Line(0, Str("undefined"))>>}
                /\ scope.status = (IF c = Bool(TRUE) THEN "ReferenceError" ELSE "done")
                   \/ scope.status = "run"
          /\ scope.script = typeofScript(c, FALSE) =>
                /\ scope.out \in {<<>>, <<Line(0, Str("undefined"))>>}
                /\ scope.status \in {"run", "done"}
                /\ scope.status = "done" => scope.out = <<Line(0, Str("undefined"))>>

(* typeof value inside the block, before const value = 'blue': a
   ReferenceError, after typeof value outside the block gave 'undefined' *)
C14_Witness ==
    /\ scope.script = typeofScript(Bool(TRUE), TRUE)
    /\ scope.status = "ReferenceError"
    /\ ReadsInZone
    /\ scope.out = <<Line(0, Str("undefined"))>>

(* let someLet; console.log(someLet); someLet = 10; console.log(someLet) *)
C14_WitnessSomeLet ==
    /\ scope.script = someLetScript(FALSE)
    /\ scope.status = "done"
    /\ scope.out = <<Line(0, Undefined), Line(0, Num(10))>>

----------------------------------------------------------------------------
(* Symbols and the global symbol registry (06-symbols.js) *)

MaxSymbolOps == 4

(* A symbol: n tells it from every other symbol, s is its description *)
SymVal(id, d) == [t |-> "symbol", n |-> id, s |-> d]

(* The keys and descriptions the samples use *)
SymbolKeys == {"uid", "foo"}

(* One call of the script: the function, its string argument, the call
   whose result it uses as its symbol (0: none), the symbol, and what it returned *)
SymCall(fn, k, via, sym, ret) == [fn |-> fn, key |-> k, via |-> via, sym |-> sym, ret |-> ret]

(* as RegistryFind, but never finding the key *)
RegistryFindNone(reg, k) == 0

(* The entry of the registry with key k; 0 if there is none *)
RegistryFind(reg, k) ==
    IF \E i \in 1..Len(reg) : reg[i].key = k
    THEN CHOOSE i \in 1..Len(reg) : reg[i].key = k
    ELSE 0

(* as KeyFor, but looking the symbol up by its description *)
KeyForByDescription(reg, sym) ==
    IF \E i \in 1..Len(reg) : reg[i].key = sym.s THEN Str(sym.s) ELSE Undefined

(* Symbol.keyFor(sym): the key under which the registry holds sym, undefined if it does not *)
KeyFor(reg, sym) ==
    IF \E i \in 1..Len(reg) : reg[i].sym = sym
    THEN Str(reg[CHOOSE i \in 1..Len(reg) : reg[i].sym = sym].key)
    ELSE Undefined

(* object[sym] *)
GetSymProp(o, sym) ==
    IF \E i \in 1..Len(o) : o[i].key = sym
    THEN o[CHOOSE i \in 1..Len(o) : o[i].key = sym].val
    ELSE Undefined

(* object[sym] = v *)
SetSymProp(o, sym, v) ==
    IF \E i \in 1..Len(o) : o[i].key = sym
    THEN [o EXCEPT ![CHOOSE i \in 1..Len(o) : o[i].key = sym].val = v]
    ELSE Append(o, [key |-> sym, val |-> v])

exceptSymbols == <<matcher, conc, scope, regexps, objects>>

SymbolsInit ==
    /\ symbols = [count |-> 0, registry |-> <<>>, object |-> <<>>, log |-> <<>>]
    /\ MatcherIdle
    /\ conc = Idle
    /\ scope = Idle
    /\ regexps = Idle
    /\ objects = Idle

(* The calls that made a symbol, whose results later calls can use *)
Makers == {i \in 1..Len(symbols.log) : symbols.log[i].fn \in {"Symbol", "for"}}

(* const uidz = Symbol('uid'): a new symbol, not put in the registry *)
SymbolNew ==
    /\ Len(symbols.log) < MaxSymbolOps
    /\ \E d \in SymbolKeys :
          LET sym == SymVal(symbols.count + 1, d)
          IN symbols' = [symbols EXCEPT !.count = @ + 1,
                                        !.log = Append(@, SymCall("Symbol", d, 0, sym, sym))]
    /\ UNCHANGED exceptSymbols

(* const uid = Symbol.for('uid'): the symbol the registry holds for the key;
   if there is none, a new symbol, described by the key, is registered *)
SymbolFor ==
    /\ Len(symbols.log) < MaxSymbolOps
    /\ \E k \in SymbolKeys :
          LET i == RegistryFind(symbols.registry, k)
              sym == SymVal(symbols.count + 1, k)
          IN symbols' = IF i # 0
                        THEN [symbols EXCEPT
                               !.log = Append(@, SymCall("for", k, 0, symbols.registry[i].sym,
                                                         symbols.registry[i].sym))]
                        ELSE [symbols EXCEPT
                               !.count = @ + 1,
                               !.registry = Append(@, [key |-> k, sym |-> sym]),
                               !.log = Append(@, SymCall("for", k, 0, sym, sym))]
    /\ UNCHANGED exceptSymbols

(* console.log(Symbol.keyFor(uidx)) *)
SymbolKeyFor ==
    /\ Len(symbols.log) < MaxSymbolOps
    /\ \E i \in Makers :
          LET sym == symbols.log[i].ret
          IN symbols' = [symbols EXCEPT
                          !.log = Append(@, SymCall("keyFor", "", i, sym,
                                                    KeyFor(symbols.registry, sym)))]
    /\ UNCHANGED exceptSymbols

(* object[uid] = '12345' *)
StoreUnder ==
    /\ Len(symbols.log) < MaxSymbolOps
    /\ \E i \in Makers :
          LET sym == symbols.log[i].ret
          IN symbols' = [symbols EXCEPT
                          !.object = SetSymProp(@, sym, Str("12345")),
                          !.log = Append(@, SymCall("set", "", i, sym, Str("12345")))]
    /\ UNCHANGED exceptSymbols

(* console.log(object1[uid2]) *)
ReadThrough ==
    /\ Len(symbols.log) < MaxSymbolOps
    /\ \E i \in Makers :
          LET sym == symbols.log[i].ret
          IN symbols' = [symbols EXCEPT
                          !.log = Append(@, SymCall("get", "", i, sym,
                                                    GetSymProp(symbols.object, sym)))]
    /\ UNCHANGED exceptSymbols

SymbolsNext ==
    \/ SymbolNew
    \/ SymbolFor
    \/ SymbolKeyFor
    \/ StoreUnder
    \/ ReadThrough

SpecSymbol == SymbolsInit /\ [][SymbolsNext]_vars

(* Whether calls i and j are meant to have returned the same symbol: the
   same call, or two calls of Symbol.for with the same key *)
SameShared(i, j) ==
    \/ i = j
    \/ /\ symbols.log[i].fn = "for"
       /\ symbols.log[j].fn = "for"
       /\ symbols.log[i].key = symbols.log[j].key

(* C15: under any sequence of Symbol.for and Symbol calls the registry is
   one-to-one between keys and shared symbols.  Two calls of Symbol.for
   return the identical symbol exactly when their keys are equal, so that a
   property stored under one is read through the other; Symbol.keyFor of
   such a symbol is its key; a symbol made by Symbol(k) differs from every
   other symbol, Symbol.for(k) included, and Symbol.keyFor of it is undefined. *)
C15_RegistryOneToOne ==
    /\ \A i, j \in 1..Len(symbols.registry) :
          i # j => /\ symbols.registry[i].key # symbols.registry[j].key
                   /\ symbols.registry[i].sym # symbols.registry[j].sym
    /\ \A i, j \in Makers : (symbols.log[i].ret = symbols.log[j].ret) <=> SameShared(i, j)
    /\ \A p \in 1..Len(symbols.log) :
          LET c == symbols.log[p]
          IN /\ c.fn = "for" => c.ret.s = c.key
             /\ c.fn = "keyFor" =>
                   c.ret = IF symbols.log[c.via].fn = "for"
                           THEN Str(symbols.log[c.via].key) ELSE Undefined
             /\ c.fn = "get" =>
                   c.ret = IF \E q \in 1..(p - 1) : /\ symbols.log[q].fn = "set"
                                                    /\ SameShared(symbols.log[q].via, c.via)
                           THEN Str("12345") ELSE Undefined

(* uid1 = Symbol.for('uid'); uid2 = Symbol.for('uid'); object1[uid1] =
   '12345'; object1[uid2] reads '12345' *)
C15_Witness ==
    /\ Len(symbols.log) = 4
    /\ symbols.log[1].fn = "for" /\ symbols.log[1].key = "uid"
    /\ symbols.log[2].fn = "for" /\ symbols.log[2].key = "uid"
    /\ symbols.log[3].fn = "set" /\ symbols.log[3].via = 1
    /\ symbols.log[4].fn = "get" /\ symbols.log[4].via = 2
    /\ symbols.log[4].ret = Str("12345")

(* uidx = Symbol.for('uid'); uidz = Symbol('uid'); Symbol.keyFor gives 'uid'
   and undefined *)
C15_WitnessKeyFor ==
    /\ Len(symbols.log) = 4
    /\ symbols.log[1].fn = "for" /\ symbols.log[1].key = "uid"
    /\ symbols.log[2].fn = "Symbol" /\ symbols.log[2].key = "uid"
    /\ symbols.log[3].fn = "keyFor" /\ symbols.log[3].via = 1 /\ symbols.log[3].ret = Str("uid")
    /\ symbols.log[4].fn = "keyFor" /\ symbols.log[4].via = 2 /\ symbols.log[4].ret = Undefined

----------------------------------------------------------------------------
(* Regular expressions and lastIndex (06-symbols.js, REGEXP 'y' FLAG) *)

MaxRegExpOps == 3

(* let text = 'hello1 hello2 hello3', a character per element *)
text ==
    <<"h", "e", "l", "l", "o", "1", " ", "h", "e", "l", "l", "o", "2", " ", "h", "e", "l", "l", "o", "3">>

(* Other strings the three patterns are run on *)
Texts ==
    {text,
     <<"h", "e", "l", "l", "o", "1", "h", "e", "l", "l", "o", "2">>,
     <<"a", "h", "e", "l", "l", "o", "1", " ">>,
     <<"h", "e", "l", "l", "o">>}

(* The character of s at position i, counted from 0; none past the end *)
CharAt(s, i) == IF i + 1 \in 1..Len(s) THEN s[i + 1] ELSE ""

RECURSIVE Slice(_, _, _)
(* s.slice(i, e) *)
Slice(s, i, e) == IF i >= e THEN "" ELSE CharAt(s, i) \o Slice(s, i + 1, e)

(* \d and \s *)
IsDigit(c) == c \in {"0", "1", "2", "3", "4", "5", "6", "7", "8", "9"}
IsSpace(c) == c \in {" ", "\t", "\n"}

(* /hello\d\s?/ tried at position i: the position after the match, -1 if
   there is no match there *)
MatchAt(s, i) ==
    IF /\ CharAt(s, i) = "h" /\ CharAt(s, i + 1) = "e" /\ CharAt(s, i + 2) = "l"
       /\ CharAt(s, i + 3) = "l" /\ CharAt(s, i + 4) = "o" /\ IsDigit(CharAt(s, i + 5))
    THEN IF IsSpace(CharAt(s, i + 6)) THEN i + 7 ELSE i + 6
    ELSE -1

NoMatch == [index |-> -1, end |-> -1]

RECURSIVE Scan(_, _, _)
(* The first match at or after position i; a sticky search tries position i alone *)
Scan(s, i, sticky) ==
    IF i > Len(s) THEN NoMatch
    ELSE IF MatchAt(s, i) # -1 THEN [index |-> i, end |-> MatchAt(s, i)]
    ELSE IF sticky THEN NoMatch
    ELSE Scan(s, i + 1, sticky)

(* let pattern = /hello\d\s?/, globalPattern = /hello\d\s?/g, stickyPattern = /hello\d\s?/y *)
RegExp(flags) == [flags |-> flags, lastIndex |-> 0]
pattern == RegExp("")
globalPattern == RegExp("g")
stickyPattern == RegExp("y")

(* as StartIndex, but honouring lastIndex whatever the flags *)
StartIndexHonoured(r) == r.lastIndex

(* Where exec starts: at lastIndex with the g or the y flag, else at 0 *)
StartIndex(r) == IF r.flags \in {"g", "y"} THEN r.lastIndex ELSE 0

(* as IsSticky, but never true *)
IsStickyNever(r) == FALSE

IsSticky(r) == r.flags = "y"

(* r.exec(s): the match with its position, or null; with the g or the y
   flag lastIndex becomes the position after the match, 0 if there is none *)
Exec(r, s) ==
    LET m == Scan(s, StartIndex(r), IsSticky(r))
    IN [ret |-> IF m = NoMatch THEN Null ELSE Str(Slice(s, m.index, m.end)),
        index |-> m.index,
        lastIndex |-> IF r.flags \in {"g", "y"}
                      THEN (IF m = NoMatch THEN 0 ELSE m.end)
                      ELSE r.lastIndex]

(* The values the script assigns to lastIndex, and a few others *)
LastIndexValues == {0, 1, 7, 14}

exceptRegExps == <<matcher, conc, scope, symbols, objects>>

(* No exec yet: result, globalResult and stickyResult are unset *)
NoResult == [ret |-> Undefined, index |-> -1, from |-> 0]

RegExpsInit ==
    /\ \E s \in Texts :
          regexps = [text |-> s, ops |-> 0,
                     pats |-> <<pattern, globalPattern, stickyPattern>>,
                     results |-> <<NoResult, NoResult, NoResult>>]
    /\ MatcherIdle
    /\ conc = Idle
    /\ scope = Idle
    /\ symbols = Idle
    /\ objects = Idle

(* result = pattern.exec(text), and the same for the other two patterns *)
ExecPattern ==
    /\ regexps.ops < MaxRegExpOps
    /\ \E p \in 1..3 :
          LET x == Exec(regexps.pats[p], regexps.text)
          IN regexps' = [regexps EXCEPT
                          !.ops = @ + 1,
                          !.pats[p].lastIndex = x.lastIndex,
                          !.results[p] = [ret |-> x.ret, index |-> x.index,
                                          from |-> regexps.pats[p].lastIndex]]
    /\ UNCHANGED exceptRegExps

(* pattern.lastIndex = 1, and the same for the other two patterns *)
SetLastIndex ==
    /\ regexps.ops < MaxRegExpOps
    /\ \E p \in 1..3, n \in LastIndexValues :
          regexps' = [regexps EXCEPT !.ops = @ + 1, !.pats[p].lastIndex = n]
    /\ UNCHANGED exceptRegExps

RegExpsNext ==
    \/ ExecPattern
    \/ SetLastIndex

SpecRegExp == RegExpsInit /\ [][RegExpsNext]_vars

(* The positions of the text, from position i on, where the pattern matches *)
MatchesFrom(i) == {k \in i..Len(regexps.text) : MatchAt(regexps.text, k) # -1}

(* C16: the effect of lastIndex on exec for /hello\d\s?/.  On 'hello1 hello2
   hello3' with lastIndex 0 the pattern without flag, with g and with y all
   match 'hello1 '; with lastIndex 1 the pattern without flag ignores it and
   matches 'hello1 ', the g pattern searches forward from 1 and matches
   'hello2 ', the y pattern, which must match at lastIndex itself, gives
   null.  On any text: without flag the match is the first one of the text,
   with g the first one at or after lastIndex, with y the one at lastIndex. *)
C16_LastIndexEffect ==
    \A p \in 1..3 :
        LET r == regexps.results[p]
        IN r # NoResult =>
              /\ (regexps.text = text /\ r.from = 0) => r.ret = Str("hello1 ") /\ r.index = 0
              /\ (regexps.text = text /\ r.from = 1) =>
                    r.ret = (CASE p = 1 -> Str("hello1 ") [] p = 2 -> Str("hello2 ") [] p = 3 -> Null)
              /\ p = 1 => IF MatchesFrom(0) = {} THEN r.ret = Null
                          ELSE r.ret # Null /\ \A k \in MatchesFrom(0) : r.index <= k
              /\ p = 2 => IF MatchesFrom(r.from) = {} THEN r.ret = Null
                          ELSE /\ r.ret # Null
                               /\ r.index \in MatchesFrom(r.from)
                               /\ \A k \in MatchesFrom(r.from) : r.index <= k
              /\ p = 3 => IF r.from \in MatchesFrom(0) THEN r.ret # Null /\ r.index = r.from
                          ELSE r.ret = Null

(* stickyPattern.exec(text) matched 'hello1 ' at 0; stickyPattern.lastIndex = 1;
   stickyPattern.exec(text) is null *)
C16_Witness ==
    /\ regexps.text = text
    /\ regexps.ops = 3
    /\ regexps.results[3] = [ret |-> Null, index |-> -1, from |-> 1]
    /\ regexps.pats[3].lastIndex = 0

(* globalPattern.lastIndex = 1; globalPattern.exec(text) matches 'hello2 ' at 7 *)
C16_WitnessGlobal ==
    /\ regexps.text = text
    /\ regexps.results[2] = [ret |-> Str("hello2 "), index |-> 7, from |-> 1]
    /\ regexps.pats[2].lastIndex = 14

(* pattern.lastIndex = 1; pattern.exec(text) matches 'hello1 ' at 0 *)
C16_WitnessNoFlag ==
    /\ regexps.text = text
    /\ regexps.results[1] = [ret |-> Str("hello1 "), index |-> 0, from |-> 1]
    /\ regexps.pats[1].lastIndex = 1

----------------------------------------------------------------------------
(* Own properties and their enumeration order (04-objects.js) *)

MaxLiteralKeys == 3
MaxAdds == 1

(* as Put, but leaving a key the object already has as it is *)
PutIfAbsent(o, k, v) ==
    IF KeyIndex(o, k) = 0
    THEN [o EXCEPT !.keys = Append(@, k), !.vals = Append(@, v)]
    ELSE o

(* o[k] = v: a new key is added after the others, an existing one keeps its place *)
Put(o, k, v) ==
    IF KeyIndex(o, k) = 0
    THEN [o EXCEPT !.keys = Append(@, k), !.vals = Append(@, v)]
    ELSE [o EXCEPT !.vals[KeyIndex(o, k)] = v]

RECURSIVE PutAll(_, _, _)
(* { k1: v, k2: v, ... }: the properties of a literal are defined in the order written *)
PutAll(o, ks, v) == IF ks = <<>> THEN o ELSE PutAll(Put(o, Head(ks), v), Tail(ks), v)

(* The keys that are numeric: canonical array indices *)
IsIndex(k) == k \in {"0", "1", "2", "10"}

(* The number a numeric key stands for *)
IndexOf(k) == CASE k = "0" -> 0 [] k = "1" -> 1 [] k = "2" -> 2 [] k = "10" -> 10

(* as IndexLess, but comparing the keys as strings, character by character *)
IndexLessLexical(a, b) ==
    LET rank(k) == CASE k = "0" -> 0 [] k = "1" -> 1 [] k = "10" -> 2 [] k = "2" -> 3
    IN rank(a) < rank(b)

(* Numeric keys are compared as numbers *)
IndexLess(a, b) == IndexOf(a) < IndexOf(b)

RECURSIVE InsertIndex(_, _)
(* The ascending list sq with the numeric key k put in its place *)
InsertIndex(sq, k) ==
    IF sq = <<>> THEN <<k>>
    ELSE IF IndexLess(k, Head(sq)) THEN <<k>> \o sq
    ELSE <<Head(sq)>> \o InsertIndex(Tail(sq), k)

RECURSIVE SortIndices(_)
SortIndices(ks) == IF ks = <<>> THEN <<>> ELSE InsertIndex(SortIndices(Tail(ks)), Head(ks))

(* as OwnPropertyKeys, but in the order the keys were added, as ES5 engines
   commonly did *)
OwnPropertyKeysInsertion(o) == o.keys

(* [[OwnPropertyKeys]]: the numeric keys in ascending order, then the
   string keys in the order they were added *)
OwnPropertyKeys(o) ==
    SortIndices(SelectSeq(o.keys, IsIndex)) \o SelectSeq(o.keys, LAMBDA k : ~IsIndex(k))

RECURSIVE Join(_)
(* array.join(',') *)
Join(ks) ==
    IF ks = <<>> THEN ""
    ELSE IF Len(ks) = 1 THEN Head(ks)
    ELSE Head(ks) \o "," \o Join(Tail(ks))

PropertyKeys == {"a", "b", "c", "d", "0", "1", "2", "10"}

(* let obj = { a: 1, 0: 1, c: 1, 2: 1, b: 1, 1: 1 } *)
obj == <<"a", "0", "c", "2", "b", "1">>

(* The literals: the one of the sample, and every short one *)
KeyLiterals == {obj} \cup SeqsUpTo(PropertyKeys, MaxLiteralKeys)

exceptObjects == <<matcher, conc, scope, symbols, regexps>>

KeysInit ==
    /\ \E lit \in KeyLiterals :
          objects = [obj |-> PutAll(Obj(<<>>, <<>>), lit, Num(1)), literal |-> lit,
                     added |-> <<>>, names |-> <<>>, joined |-> Undefined]
    /\ MatcherIdle
    /\ conc = Idle
    /\ scope = Idle
    /\ symbols = Idle
    /\ regexps = Idle

(* obj.d = 1 *)
AddProperty ==
    /\ objects.joined = Undefined
    /\ Len(objects.added) < MaxAdds
    /\ \E k \in PropertyKeys :
          objects' = [objects EXCEPT !.obj = Put(@, k, Num(1)), !.added = Append(@, k)]
    /\ UNCHANGED exceptObjects

(* console.log(Object.getOwnPropertyNames(obj).join(',')) *)
ListNames ==
    /\ objects.joined = Undefined
    /\ objects' = [objects EXCEPT !.names = OwnPropertyKeys(objects.obj),
                                  !.joined = Str(Join(OwnPropertyKeys(objects.obj)))]
    /\ UNCHANGED exceptObjects

KeysNext ==
    \/ AddProperty
    \/ ListNames

SpecKeys == KeysInit /\ [][KeysNext]_vars

(* The keys in the order they were written and added, and the place where a key first occurs *)
Inserted == objects.literal \o objects.added
FirstAt(k) == CHOOSE i \in 1..Len(Inserted) : Inserted[i] = k /\ \A j \in 1..(i - 1) : Inserted[j] # k

(* C18: Object.getOwnPropertyNames returns the own keys, each once, in a
   fixed order whatever the insertion sequence: all numeric keys first, in
   ascending numeric order, then all string keys in the order they were
   added, the keys of the literal before the keys added later.  For
   { a, 0, c, 2, b, 1 } followed by obj.d = 1 the result is '0,1,2,a,c,b,d'. *)
C18_OwnKeysOrder ==
    objects.joined # Undefined =>
        LET ns == objects.names
        IN /\ SeqToSet(ns) = SeqToSet(Inserted)
           /\ \A i, j \in 1..Len(ns) :
                 i < j =>
                    /\ ns[i] # ns[j]
                    /\ IsIndex(ns[j]) => IsIndex(ns[i]) /\ IndexOf(ns[i]) < IndexOf(ns[j])
                    /\ (~IsIndex(ns[i]) /\ ~IsIndex(ns[j])) => FirstAt(ns[i]) < FirstAt(ns[j])
           /\ objects.joined = Str(Join(ns))
           /\ (objects.literal = obj /\ objects.added = <<"d">>) =>
                 objects.joined = Str("0,1,2,a,c,b,d")

(* The sample: '0,1,2,a,c,b,d' *)
C18_Witness ==
    /\ objects.literal = obj
    /\ objects.added = <<"d">>
    /\ objects.joined = Str("0,1,2,a,c,b,d")

(* { 2: 1, b: 1, 10: 1 } then obj.a = 1: '2,10,b,a' *)
C18_WitnessNumeric ==
    /\ objects.literal = <<"2", "b", "10">>
    /\ objects.added = <<"a">>
    /\ objects.joined = Str("2,10,b,a")

----------------------------------------------------------------------------
(* Object.assign and mixin (04-objects.js) *)

MaxSuppliers == 2

(* let receiver = {} *)
receiver == Obj(<<>>, <<>>)
(* let supplier1 = { type: 'js', name: 'file.js' } *)
supplier1 == Obj(<<"type", "name">>, <<Str("js"), Str("file.js")>>)
(* let supplier2 = { type: 'css' } *)
supplier2 == Obj(<<"type">>, <<Str("css")>>)
(* a supplier with a numeric key, which is copied first *)
supplier3 == Obj(<<"name", "0">>, <<Str("a.css"), Num(1)>>)

(* The receivers: the empty one of the sample, and ones that have properties *)
Receivers ==
    {receiver, Obj(<<"type", "id">>, <<Str("html"), Num(7)>>), Obj(<<"name">>, <<Undefined>>)}

(* The receiver is at address 1, the suppliers follow; args are the
   addresses of the suppliers passed, in order *)
AssignInit ==
    /\ \E r \in Receivers, as \in SeqsUpTo(2..4, MaxSuppliers), f \in {"assign", "mixin"} :
          objects = [heap |-> <<r, supplier1, supplier2, supplier3>>,
                     init |-> <<r, supplier1, supplier2, supplier3>>,
                     args |-> as, fn |-> f, si |-> 0, keys |-> <<>>, status |-> "run"]
    /\ MatcherIdle
    /\ conc = Idle
    /\ scope = Idle
    /\ symbols = Idle
    /\ regexps = Idle

(* Object.assign(receiver, ...): the next supplier, whose own keys are
   listed before any of them is copied *)
AssignNextSource ==
    /\ objects.status = "run" /\ objects.fn = "assign"
    /\ objects.keys = <<>>
    /\ objects.si < Len(objects.args)
    /\ objects' = [objects EXCEPT
                    !.si = @ + 1,
                    !.keys = OwnPropertyKeys(objects.heap[objects.args[objects.si + 1]])]
    /\ UNCHANGED exceptObjects

(* Object.assign: a key the supplier still has is read from it and
   assigned on the receiver *)
AssignCopy ==
    /\ objects.status = "run" /\ objects.fn = "assign"
    /\ objects.keys # <<>>
    /\ LET k == Head(objects.keys)
           from == objects.heap[objects.args[objects.si]]
       IN objects' = IF KeyIndex(from, k) # 0
                     THEN [objects EXCEPT !.heap[1] = Put(@, k, GetProp(from, k)),
                                          !.keys = Tail(@)]
                     ELSE [objects EXCEPT !.keys = Tail(@)]
    /\ UNCHANGED exceptObjects

(* Object.assign returns the receiver *)
AssignReturn ==
    /\ objects.status = "run" /\ objects.fn = "assign"
    /\ objects.keys = <<>>
    /\ objects.si = Len(objects.args)
    /\ objects' = [objects EXCEPT !.status = "done"]
    /\ UNCHANGED exceptObjects

(* mixin(receiver, extras): Object.keys(extras) *)
MixinCall ==
    /\ objects.status = "run" /\ objects.fn = "mixin"
    /\ objects.keys = <<>>
    /\ objects.si < Len(objects.args)
    /\ objects' = [objects EXCEPT
                    !.si = @ + 1,
                    !.keys = OwnPropertyKeys(objects.heap[objects.args[objects.si + 1]])]
    /\ UNCHANGED exceptObjects

(* key => { final[key] = extras[key] } *)
MixinCopy ==
    /\ objects.status = "run" /\ objects.fn = "mixin"
    /\ objects.keys # <<>>
    /\ LET key == Head(objects.keys)
           extras == objects.heap[objects.args[objects.si]]
       IN objects' = [objects EXCEPT !.heap[1] = Put(@, key, GetProp(extras, key)),
                                     !.keys = Tail(@)]
    /\ UNCHANGED exceptObjects

(* return final, after the last of the mixin calls *)
MixinReturn ==
    /\ objects.status = "run" /\ objects.fn = "mixin"
    /\ objects.keys = <<>>
    /\ objects.si = Len(objects.args)
    /\ objects' = [objects EXCEPT !.status = "done"]
    /\ UNCHANGED exceptObjects

AssignNext ==
    \/ AssignNextSource
    \/ AssignCopy
    \/ AssignReturn
    \/ MixinCall
    \/ MixinCopy
    \/ MixinReturn

SpecAssign == AssignInit /\ [][AssignNext]_vars

(* The properties of an object as a set of pairs of key and value *)
Properties(o) == {<<o.keys[i], o.vals[i]>> : i \in 1..Len(o.keys)}

(* The suppliers passed that have the key k, by position *)
Having(k) ==
    {i \in 1..Len(objects.args) : k \in SeqToSet(objects.init[objects.args[i]].keys)}

(* The value the receiver is to hold for k: that of the last supplier that
   has k, and its own if none has *)
Assigned(k) ==
    IF Having(k) = {}
    THEN CHOOSE v \in {objects.init[1].vals[i] : i \in 1..Len(objects.init[1].vals)} :
            <<k, v>> \in Properties(objects.init[1])
    ELSE LET last == CHOOSE i \in Having(k) : \A j \in Having(k) : j <= i
             s == objects.init[objects.args[last]]
         IN CHOOSE v \in {s.vals[i] : i \in 1..Len(s.vals)} : <<k, v>> \in Properties(s)

(* C17: Object.assign(receiver, s1, ..., sn) applies the suppliers in the
   order given.  Afterwards the receiver holds, for each key of a supplier,
   the value of the last supplier that has it, and its other keys are as
   before; the suppliers are never changed; and mixin(receiver, s1), ...,
   mixin(receiver, sn) leaves the receiver with the same properties.  For
   the sample, receiver.type is 'css' and receiver.name is 'file.js'. *)
C17_AssignInOrder ==
    /\ \A a \in 2..4 : objects.heap[a] = objects.init[a]
    /\ objects.status = "done" =>
          LET r == objects.heap[1]
              ks == SeqToSet(objects.init[1].keys)
                    \cup UNION {SeqToSet(objects.init[objects.args[i]].keys) :
                                  i \in 1..Len(objects.args)}
          IN /\ Len(r.keys) = Cardinality(ks)
             /\ Properties(r) = {<<k, Assigned(k)>> : k \in ks}
             /\ (objects.init[1] = receiver /\ objects.args = <<2, 3>>) =>
                   Properties(r) = {<<"type", Str("css")>>, <<"name", Str("file.js")>>}

(* Object.assign(receiver, supplier1, supplier2) has returned *)
C17_Witness ==
    /\ objects.fn = "assign"
    /\ objects.init[1] = receiver
    /\ objects.args = <<2, 3>>
    /\ objects.status = "done"
    /\ objects.heap[1] = Obj(<<"type", "name">>, <<Str("css"), Str("file.js")>>)

(* mixin(r, supplier2); mixin(r, supplier3) on a receiver with properties of
   its own *)
C17_WitnessMixin ==
    /\ objects.fn = "mixin"
    /\ objects.init[1] = Obj(<<"type", "id">>, <<Str("html"), Num(7)>>)
    /\ objects.args = <<3, 4>>
    /\ objects.status = "done"
    /\ objects.heap[1] = Obj(<<"type", "id", "0", "name">>,
                             <<Str("css"), Num(7), Num(1), Str("a.css")>>)

----------------------------------------------------------------------------
(* Prototypes and super references (04-objects.js) *)

MaxProtoOps == 4
MaxCreated == 1
MaxDepth == 6

(* An object with its own properties and its prototype (0: none of the
   objects of the script) *)
PObj(ks, vs, p) == [keys |-> ks, vals |-> vs, proto |-> p]

(* A function: s is its body, n the object a concise method was written in
   (its [[HomeObject]]) *)
Method(body, home) == [t |-> "function", n |-> home, s |-> body]

(* The objects of the script, by address *)
person == 1
person6 == 2
dog == 3
person7 == 4
dog2 == 5
friend1 == 6
friend2 == 7
personX == 8
friendY == 9
pers1 == 10
friend13 == 11

(* getGreeting () { return 'Hello' } and the like, written in the object at address a *)
Greeter(a, greeting) == PObj(<<"getGreeting">>, <<Method(greeting, a)>>, 0)

(* getGreeting () { return super.getGreeting() + ', hi!' } *)
SuperGreeter(a) == PObj(<<"getGreeting">>, <<Method("super", a)>>, 0)

(* getGreeting () { return Object.getPrototypeOf(this).getGreeting.call(this) + ', hi!' } *)
ProtoOfThisGreeter(a) == PObj(<<"getGreeting">>, <<Method("protoOfThis", a)>>, 0)

(* The object literals, before any prototype is set *)
Literals04 ==
    <<PObj(<<"name", "sayName">>, <<Str("Nicholas"), Method("sayName", person)>>, 0),
      Greeter(person6, "Hello"), Greeter(dog, "Woof"),
      Greeter(person7, "Hello"), Greeter(dog2, "Woof"),
      ProtoOfThisGreeter(friend1), SuperGreeter(friend2),
      Greeter(personX, "Hello"), SuperGreeter(friendY),
      Greeter(pers1, "Hello"), SuperGreeter(friend13)>>

(* The objects each part of the script works with *)
Snippets ==
    {{person, person6, dog}, {person7, dog2, friend1, friend2}, {personX, friendY},
     {pers1, friend13}}

RECURSIVE GetFrom(_, _, _)
(* o[k], for the object at address a: its own property, or else the
   property of its prototype *)
GetFrom(h, a, k) ==
    IF a = 0 THEN Undefined
    ELSE IF KeyIndex(h[a], k) # 0 THEN h[a].vals[KeyIndex(h[a], k)]
    ELSE GetFrom(h, h[a].proto, k)

RECURSIVE OnChain(_, _, _)
(* Whether address b is a itself or on the prototype chain of a *)
OnChain(h, a, b) ==
    IF a = 0 THEN FALSE ELSE IF a = b THEN TRUE ELSE OnChain(h, h[a].proto, b)

(* as SuperBase, but starting from the prototype of this *)
SuperBaseOfThis(h, f) == h[f.this].proto

(* Where super.getGreeting is looked up: the prototype of the object the
   method was written in *)
SuperBase(h, f) == h[f.fn.n].proto

(* Where the method a body delegates to is looked up *)
DelegateBase(h, f) ==
    IF f.fn.s = "super" THEN SuperBase(h, f) ELSE h[f.this].proto

CallFrame(this, fn) == [this |-> this, fn |-> fn, sub |-> Undefined]

(* What a call of getGreeting gave: the receiver, the objects at the time
   of the call, the value returned, or the error thrown *)
CallResult(recv, h, v, err) == [recv |-> recv, heap |-> h, v |-> v, err |-> err]

NoCall == CallResult(0, <<>>, Undefined, "")

ProtoInit ==
    /\ \E sn \in Snippets :
          objects = [heap |-> Literals04, snippet |-> sn, created |-> 0, ops |-> 0,
                     stack |-> <<>>, recv |-> 0, last |-> NoCall, status |-> "run"]
    /\ MatcherIdle
    /\ conc = Idle
    /\ scope = Idle
    /\ symbols = Idle
    /\ regexps = Idle

(* The objects the statements of the snippet can name *)
Known == objects.snippet \cup (Len(Literals04) + 1)..Len(objects.heap)

Idling ==
    /\ objects.status = "run"
    /\ objects.stack = <<>>
    /\ objects.ops < MaxProtoOps

(* let friend = Object.create(person) *)
ObjectCreate ==
    /\ Idling
    /\ objects.created < MaxCreated
    /\ \E p \in Known :
          objects' = [objects EXCEPT !.heap = Append(@, PObj(<<>>, <<>>, p)),
                                     !.created = @ + 1, !.ops = @ + 1]
    /\ UNCHANGED exceptObjects

(* Object.setPrototypeOf(friend, dog); a prototype chain cannot be made cyclic *)
SetPrototypeOf ==
    /\ Idling
    /\ \E o \in Known, p \in Known :
          objects' = IF OnChain(objects.heap, p, o)
                     THEN [objects EXCEPT !.status = "TypeError", !.ops = @ + 1]
                     ELSE [objects EXCEPT !.heap[o].proto = p, !.ops = @ + 1]
    /\ UNCHANGED exceptObjects

(* friend.getGreeting(): the method is looked up on the receiver and called
   with the receiver as this; calling what is not a function throws *)
Invoke ==
    /\ Idling
    /\ \E o \in Known :
          LET fn == GetFrom(objects.heap, o, "getGreeting")
          IN objects' = IF fn.t # "function"
                        THEN [objects EXCEPT
                               !.status = "TypeError", !.ops = @ + 1, !.recv = o,
                               !.last = CallResult(o, objects.heap, Undefined, "TypeError")]
                        ELSE [objects EXCEPT
                               !.stack = <<CallFrame(o, fn)>>, !.ops = @ + 1, !.recv = o]
    /\ UNCHANGED exceptObjects

(* super.getGreeting() and Object.getPrototypeOf(this).getGreeting.call(this):
   the method found is called with the same this *)
Delegate ==
    /\ objects.status = "run"
    /\ objects.stack # <<>>
    /\ LET f == Head(objects.stack)
           fn == GetFrom(objects.heap, DelegateBase(objects.heap, f), "getGreeting")
           fail(err) == [objects EXCEPT
                          !.status = err, !.stack = <<>>,
                          !.last = CallResult(objects.recv, objects.heap, Undefined, err)]
       IN /\ f.fn.s \in {"super", "protoOfThis"}
          /\ f.sub = Undefined
          /\ objects' = IF fn.t # "function" THEN fail("TypeError")
                        ELSE IF Len(objects.stack) >= MaxDepth THEN fail("RangeError")
                        ELSE [objects EXCEPT !.stack = <<CallFrame(f.this, fn)>> \o @]
    /\ UNCHANGED exceptObjects

(* return 'Hello', or return ... + ', hi!' once the inner call has returned *)
Return ==
    /\ objects.status = "run"
    /\ objects.stack # <<>>
    /\ LET f == Head(objects.stack)
           v == IF f.fn.s \in {"super", "protoOfThis"} THEN Str(f.sub.s \o ", hi!") ELSE Str(f.fn.s)
       IN /\ f.fn.s \in {"super", "protoOfThis"} => f.sub # Undefined
          /\ objects' = IF Tail(objects.stack) = <<>>
                        THEN [objects EXCEPT
                               !.stack = <<>>,
                               !.last = CallResult(objects.recv, objects.heap, v, "")]
                        ELSE [objects EXCEPT
                               !.stack = <<[objects.stack[2] EXCEPT !.sub = v]>>
                                         \o Tail(Tail(objects.stack))]
    /\ UNCHANGED exceptObjects

ProtoNext ==
    \/ ObjectCreate
    \/ SetPrototypeOf
    \/ Invoke
    \/ Delegate
    \/ Return

SpecProto == ProtoInit /\ [][ProtoNext]_vars


(* The receiver of the last call was made by Object.create *)
Created(c) == c.recv > Len(Literals04)

(* The prototype the receiver of a call had when it was called *)
ProtoAtCall(c) == c.heap[c.recv].proto

(* C19 as stated: method lookup follows the current prototype.  friend,
   created with Object.create(person), answers getGreeting() with 'Hello'
   and its prototype is person; once Object.setPrototypeOf(friend, dog) has
   made dog its prototype, it answers 'Woof'. *)
C19_MethodFollowsPrototype ==
    LET c == objects.last
    IN (objects.snippet = {person, person6, dog} /\ c # NoCall /\ Created(c)) =>
          /\ ProtoAtCall(c) = person => c.err = "" /\ c.v = Str("Hello")
          /\ ProtoAtCall(c) = dog => c.err = "" /\ c.v = Str("Woof")

RECURSIVE Greeting(_, _)
(* What getGreeting looked up from the object at address a is to return,
   each super taken from the prototype of the object its method is
   written in; "?" where there is no such method *)
Greeting(h, a) ==
    LET fn == GetFrom(h, a, "getGreeting")
        up == Greeting(h, h[fn.n].proto)
    IN IF fn.t # "function" \/ fn.s = "protoOfThis" THEN "?"
       ELSE IF fn.s = "super" THEN (IF up = "?" THEN "?" ELSE up \o ", hi!")
       ELSE fn.s

(* C20: super is resolved from the prototype of the object the method is
   written in, not from the prototype of this.  A call of a method written
   with super ends, whatever object it is called on, and returns what the
   prototype of its home object answers followed by ', hi!': with personX <-
   friendY <- relative, relative.getGreeting() returns 'Hello, hi!'.  The
   method written with Object.getPrototypeOf(this), called on the object it
   is written in, returns the same as the one written with super. *)
C20_SuperFromHomeObject ==
    LET c == objects.last
        fn == GetFrom(c.heap, c.recv, "getGreeting")
        home == fn.n
        above == Greeting(c.heap, c.heap[home].proto)
    IN (c # NoCall /\ fn.t = "function") =>
          /\ (fn.s = "super" /\ above # "?") => c.err = "" /\ c.v = Str(above \o ", hi!")
          /\ (fn.s = "protoOfThis" /\ c.recv = home /\ above # "?") =>
                c.err = "" /\ c.v = Str(above \o ", hi!")
          /\ (Created(c) /\ ProtoAtCall(c) = friendY /\ c.heap[friendY].proto = personX) =>
                c.err = "" /\ c.v = Str("Hello, hi!")
          /\ (c.recv \in {friend2, friend13} /\ ProtoAtCall(c) \in {dog2, pers1}
              /\ c.heap[ProtoAtCall(c)].proto = 0) =>
                c.v = (IF ProtoAtCall(c) = dog2 THEN Str("Woof, hi!") ELSE Str("Hello, hi!"))

(* Object.setPrototypeOf(friendY, personX); relative = Object.create(friendY);
   relative.getGreeting() has returned 'Hello, hi!' *)
C20_Witness ==
    /\ objects.snippet = {personX, friendY}
    /\ Created(objects.last)
    /\ ProtoAtCall(objects.last) = friendY
    /\ objects.last.heap[friendY].proto = personX
    /\ objects.last.v = Str("Hello, hi!")
    /\ objects.stack = <<>>

(* friend1, with prototype dog2, called on itself: 'Woof, hi!' *)
C20_WitnessProtoOfThis ==
    /\ objects.last.recv = friend1
    /\ ProtoAtCall(objects.last) = dog2
    /\ objects.last.v = Str("Woof, hi!")

(* The method written with Object.getPrototypeOf(this), called on an object
   made from friend1, never returns *)
C20_WitnessLoop ==
    /\ Created(objects.last)
    /\ ProtoAtCall(objects.last) = friend1
    /\ objects.last.err = "RangeError"

(* friend = Object.create(person6): 'Hello' *)
C19_WitnessPerson6 ==
    /\ Created(objects.last)
    /\ ProtoAtCall(objects.last) = person6
    /\ objects.last.v = Str("Hello")

====
